---------------------------- MODULE Spec2Model ----------------------------
(* A model of the kvstore repository's storage core:                        *)
(*   MemoryStore      (src/internal/store/memory_store.go)                  *)
(*   PersistentStore  (src/internal/store/persistent_store.go)              *)
(* Every MemoryStore operation validates its inputs and then runs its whole *)
(* effect under ms.mutex, so it is one atomic step here.                    *)
EXTENDS Integers, Sequences, FiniteSets, TLC

(***************************************************************************)
(* Bounds of the model                                                     *)
(***************************************************************************)
MaxOps == 3
MaxClock == 2
MaxAttempts == 2

(***************************************************************************)
(* Inputs                                                                  *)
(***************************************************************************)
\* Key.Validate's length limit (store.go)
MaxKeyLen == 255

\* Keys are byte strings, modelled as sequences of byte values.
KeyA == <<97>>
KeyB == <<98>>
Keys == {KeyA, KeyB}
EmptyKey == << >>
NullKey == <<97, 0>>
LongKey == [i \in 1..(MaxKeyLen + 1) |-> 97]
InvalidKeys == {EmptyKey, NullKey, LongKey}
AllKeys == Keys \cup InvalidKeys

Vals == {"v1", "v2"}
Ctxs == {"live", "expired", "cancelled"}
Callers == {1, 2}
Versions == {1, 2, 3}

(***************************************************************************)
(* Errors (store.go, context)                                              *)
(***************************************************************************)
Nil == "nil"
ErrKeyNotFound == "ErrKeyNotFound"
ErrInvalidKey == "ErrInvalidKey"
ErrStoreClosed == "ErrStoreClosed"
ErrConcurrentModification == "ErrConcurrentModification"
DeadlineExceeded == "context.DeadlineExceeded"
Canceled == "context.Canceled"

VARIABLES
  ms,       \* the MemoryStore: [data, stats, closed]
  clock,    \* time.Now()
  ret,      \* the MemoryStore call that returned last: its inputs and results
  th,       \* per caller: the operation in progress, its inputs and locals
  nops,     \* number of operations invoked so far
  plain,    \* history: a plain map driven by the successful operations
  muts,     \* history: per key, successful Set/CompareAndSwap since it became present
  maxSeen,  \* history: per key, the highest version it has taken so far
  swaps,    \* history: the expectedVersions of the successful swaps of the CAS loops
  ps,       \* the PersistentStore: closed flag, timer, saveChannel, shutdownOnce
  cfg,      \* its PersistentStoreConfig, defaults applied
  wk,       \* the saveProcessor goroutine: position, snapshot in hand, attempt
  tm,       \* the periodic timer's callback goroutine: position
  pers,     \* the Persistence: the snapshot it holds, its Save calls, its failure mode
  ref,      \* a bare MemoryStore driven through the same calls as the PersistentStore
  hist,     \* history of the PersistentStore run (counters, the map when Close was called)
  fs,       \* the filesystem: whether the directory exists, the file at each path
  mutex,    \* per JSONFilePersistence instance, its sync.RWMutex: writer and readers
  ft,       \* per goroutine: its Save or Load in progress, its inputs and locals
  fret,     \* the Save or Load that returned last: its inputs and results
  fhist     \* history of the file persistence run (calls, the last snapshot saved)

msVars == <<ms, clock, ret, th, nops, plain, muts, maxSeen, swaps>>
psVars == <<ps, cfg, wk, tm, pers, ref, hist>>
fileVars == <<fs, mutex, ft, fret, fhist>>
vars == <<ms, clock, ret, th, nops, plain, muts, maxSeen, swaps, ps, cfg, wk, tm, pers, ref, hist,
          fs, mutex, ft, fret, fhist>>

(***************************************************************************)
(* Types of store.go and interface.go                                      *)
(***************************************************************************)
\* Value{}
ZeroValue == [Data |-> "", CreatedAt |-> 0, UpdatedAt |-> 0, Version |-> 0]

\* StoreStats{}
ZeroStats == [TotalKeys |-> 0, TotalRequests |-> 0, GetRequests |-> 0,
              SetRequests |-> 0, DeleteRequests |-> 0]

EmptyMap == [k \in {} |-> ZeroValue]
MapPut(m, k, v) == [x \in (DOMAIN m) \cup {k} |-> IF x = k THEN v ELSE m[x]]
MapDel(m, k) == [x \in (DOMAIN m) \ {k} |-> m[x]]

\* Key.Validate
Validate(k) ==
  IF Len(k) = 0 THEN ErrInvalidKey
  ELSE IF Len(k) > MaxKeyLen THEN ErrInvalidKey
  ELSE IF \E i \in 1..Len(k) : k[i] = 0 THEN ErrInvalidKey
  ELSE Nil

\* select { case <-ctx.Done(): return ctx.Err() default: }
CtxErr(ctx) ==
  CASE ctx = "expired" -> DeadlineExceeded
    [] ctx = "cancelled" -> Canceled
    [] OTHER -> Nil

(***************************************************************************)
(* MemoryStore                                                             *)
(***************************************************************************)
NewMemoryStore == [data |-> EmptyMap, stats |-> ZeroStats, closed |-> FALSE]

incrementStat(stats, statType) ==
  [stats EXCEPT !.TotalRequests = @ + 1,
                !.GetRequests = IF statType = "StatGet" THEN @ + 1 ELSE @,
                !.SetRequests = IF statType = "StatSet" THEN @ + 1 ELSE @,
                !.DeleteRequests = IF statType = "StatDelete" THEN @ + 1 ELSE @]

updateKeyCount(stats, data) == [stats EXCEPT !.TotalKeys = Cardinality(DOMAIN data)]

\* What an operation hands back: the store after it, and its return values.
Res(s, err, value, list, n, ok) ==
  [ms |-> s, err |-> err, value |-> value, list |-> list, n |-> n, ok |-> ok]
Fail(s, err) == Res(s, err, ZeroValue, << >>, 0, FALSE)

\* The checks every keyed operation makes before it takes the lock, then the
\* closed check under the lock; Nil when the operation may proceed.
KeyedPrecheckNoContext(s, ctx, key) ==
  IF Validate(key) # Nil THEN Validate(key)
  ELSE IF s.closed THEN ErrStoreClosed
  ELSE Nil

KeyedPrecheckClosedFirst(s, ctx, key) ==
  IF s.closed THEN ErrStoreClosed
  ELSE IF Validate(key) # Nil THEN Validate(key)
  ELSE IF CtxErr(ctx) # Nil THEN CtxErr(ctx)
  ELSE Nil

KeyedPrecheck(s, ctx, key) ==
  IF Validate(key) # Nil THEN Validate(key)
  ELSE IF CtxErr(ctx) # Nil THEN CtxErr(ctx)
  ELSE IF s.closed THEN ErrStoreClosed
  ELSE Nil

\* The same for the operations without a key.
UnkeyedPrecheck(s, ctx) ==
  IF CtxErr(ctx) # Nil THEN CtxErr(ctx)
  ELSE IF s.closed THEN ErrStoreClosed
  ELSE Nil

MemoryStore_Get(s, ctx, key) ==
  IF KeyedPrecheck(s, ctx, key) # Nil THEN Fail(s, KeyedPrecheck(s, ctx, key))
  ELSE LET s1 == [s EXCEPT !.stats = incrementStat(@, "StatGet")]
       IN IF key \notin DOMAIN s.data THEN Fail(s1, ErrKeyNotFound)
          ELSE Res(s1, Nil, s.data[key], << >>, 0, FALSE)

\* The value Set stores: an update of the existing value, or a new one.
SetNewValueSkip(exists, existingValue, value, now) ==
  IF exists
  THEN [Data |-> value, CreatedAt |-> existingValue.CreatedAt,
        UpdatedAt |-> now, Version |-> existingValue.Version + 2]
  ELSE [Data |-> value, CreatedAt |-> now, UpdatedAt |-> now, Version |-> 1]

SetNewValueStale(exists, existingValue, value, now) ==
  IF exists
  THEN [Data |-> value, CreatedAt |-> existingValue.CreatedAt,
        UpdatedAt |-> now, Version |-> existingValue.Version]
  ELSE [Data |-> value, CreatedAt |-> now, UpdatedAt |-> now, Version |-> 1]

SetNewValueRecreated(exists, existingValue, value, now) ==
  IF exists
  THEN [Data |-> value, CreatedAt |-> now,
        UpdatedAt |-> now, Version |-> existingValue.Version + 1]
  ELSE [Data |-> value, CreatedAt |-> now, UpdatedAt |-> now, Version |-> 1]

SetNewValue(exists, existingValue, value, now) ==
  IF exists
  THEN [Data |-> value, CreatedAt |-> existingValue.CreatedAt,
        UpdatedAt |-> now, Version |-> existingValue.Version + 1]
  ELSE [Data |-> value, CreatedAt |-> now, UpdatedAt |-> now, Version |-> 1]

MemoryStore_Set(s, ctx, key, value, now) ==
  IF KeyedPrecheck(s, ctx, key) # Nil THEN Fail(s, KeyedPrecheck(s, ctx, key))
  ELSE LET exists == key \in DOMAIN s.data
           existingValue == IF exists THEN s.data[key] ELSE ZeroValue
           data1 == MapPut(s.data, key, SetNewValue(exists, existingValue, value, now))
           stats1 == updateKeyCount(incrementStat(s.stats, "StatSet"), data1)
       IN Fail([s EXCEPT !.data = data1, !.stats = stats1], Nil)

\* delete(ms.data, key) and what Delete returns
DeleteKeep(s, key) ==
  Res([s EXCEPT !.stats = updateKeyCount(s.stats, s.data)],
      Nil, s.data[key], << >>, 0, FALSE)

DeleteEntry(s, key) ==
  LET data1 == MapDel(s.data, key)
  IN Res([s EXCEPT !.data = data1, !.stats = updateKeyCount(s.stats, data1)],
         Nil, s.data[key], << >>, 0, FALSE)

MemoryStore_Delete(s, ctx, key) ==
  IF KeyedPrecheck(s, ctx, key) # Nil THEN Fail(s, KeyedPrecheck(s, ctx, key))
  ELSE LET s1 == [s EXCEPT !.stats = incrementStat(@, "StatDelete")]
       IN IF key \notin DOMAIN s.data THEN Fail(s1, ErrKeyNotFound)
          ELSE DeleteEntry(s1, key)

\* Go iterates a map in an unspecified order: every order of the keys is possible.
Orders(S) == {q \in [1..Cardinality(S) -> S] : \A x \in S : \E i \in DOMAIN q : q[i] = x}

\* order: the iteration order the runtime picks, one of Orders(DOMAIN s.data)
MemoryStore_List(s, ctx, order) ==
  IF UnkeyedPrecheck(s, ctx) # Nil THEN Fail(s, UnkeyedPrecheck(s, ctx))
  ELSE Res(s, Nil, ZeroValue, order, 0, FALSE)

MemoryStore_ListEntries(s, ctx, order) ==
  IF UnkeyedPrecheck(s, ctx) # Nil THEN Fail(s, UnkeyedPrecheck(s, ctx))
  ELSE Res(s, Nil, ZeroValue,
           [i \in DOMAIN order |-> [Key |-> order[i], Value |-> s.data[order[i]]]],
           0, FALSE)

MemoryStore_Size(s, ctx) ==
  IF UnkeyedPrecheck(s, ctx) # Nil THEN Fail(s, UnkeyedPrecheck(s, ctx))
  ELSE Res(s, Nil, ZeroValue, << >>, Cardinality(DOMAIN s.data), FALSE)

MemoryStore_Clear(s, ctx) ==
  IF UnkeyedPrecheck(s, ctx) # Nil THEN Fail(s, UnkeyedPrecheck(s, ctx))
  ELSE Fail([s EXCEPT !.data = EmptyMap, !.stats = updateKeyCount(s.stats, EmptyMap)], Nil)

MemoryStore_Exists(s, ctx, key) ==
  IF KeyedPrecheck(s, ctx, key) # Nil THEN Fail(s, KeyedPrecheck(s, ctx, key))
  ELSE Res(s, Nil, ZeroValue, << >>, 0, key \in DOMAIN s.data)

\* if currentValue.Version != expectedVersion
VersionMatchesAlways(currentValue, expectedVersion) == TRUE

VersionMatchesOrNewer(currentValue, expectedVersion) ==
  currentValue.Version >= expectedVersion

VersionMatches(currentValue, expectedVersion) == currentValue.Version = expectedVersion

\* return currentValue, ErrConcurrentModification
CASMismatchZero(s, currentValue) == Fail(s, ErrConcurrentModification)

CASMismatch(s, currentValue) ==
  Res(s, ErrConcurrentModification, currentValue, << >>, 0, FALSE)

\* updatedValue := Value{...}
CASUpdatedValueFresh(currentValue, newValue, now) ==
  [Data |-> newValue, CreatedAt |-> now, UpdatedAt |-> now, Version |-> 1]

CASUpdatedValue(currentValue, newValue, now) ==
  [Data |-> newValue, CreatedAt |-> currentValue.CreatedAt,
   UpdatedAt |-> now, Version |-> currentValue.Version + 1]

MemoryStore_CompareAndSwap(s, ctx, key, expectedVersion, newValue, now) ==
  IF KeyedPrecheck(s, ctx, key) # Nil THEN Fail(s, KeyedPrecheck(s, ctx, key))
  ELSE IF key \notin DOMAIN s.data THEN Fail(s, ErrKeyNotFound)
  ELSE IF ~VersionMatches(s.data[key], expectedVersion) THEN CASMismatch(s, s.data[key])
  ELSE LET updatedValue == CASUpdatedValue(s.data[key], newValue, now)
       IN Res([s EXCEPT !.data = MapPut(s.data, key, updatedValue)],
              Nil, updatedValue, << >>, 0, FALSE)

MemoryStore_Close(s) == Fail([s EXCEPT !.closed = TRUE], Nil)

(***************************************************************************)
(* PersistentStore: types, configuration, persistence                      *)
(***************************************************************************)
\* NewPersistentStore: config.RetryAttempts = 3 when it is given as 0
DefaultRetryAttempts == 3
\* NewPersistentStore: make(chan struct{}, 100)
SaveChannelCap == 100

\* A nil *StoreSnapshot.
NilSnapshot ==
  [isNil |-> TRUE, Data |-> [x \in {} |-> ""], Version |-> "", Timestamp |-> 0,
   Stats |-> ZeroStats]

\* What a call hands back to its caller.
Out(r) == [err |-> r.err, value |-> r.value, list |-> r.list, n |-> r.n, ok |-> r.ok]
NoOut == Out(Fail(NewMemoryStore, Nil))

\* A caller of the PersistentStore that is in no call.
PSIdle ==
  [pc |-> "idle", op |-> "none", key |-> EmptyKey, ctx |-> "live", val |-> "", exp |-> 0,
   attempt |-> 0, snap |-> NilSnapshot, closeErr |-> Nil, enteredClosed |-> FALSE,
   under |-> NoOut, refOut |-> NoOut, late |-> FALSE]

NoHist ==
  [calls |-> 0, fires |-> 0, closeCalled |-> FALSE, closeCallData |-> [x \in {} |-> ""],
   overlap |-> FALSE, runner |-> 0, marks |-> 0, finalSaves |-> 0,
   chanCloses |-> 0, storeCloses |-> 0, saveFailed |-> FALSE,
   saveCountAtClose |-> 0, unflushedAtClose |-> FALSE, workerIdleAtClose |-> FALSE,
   sentAfterClose |-> FALSE,
   boots |-> 0, bootLoadErr |-> Nil, bootErr |-> Nil, bootLoads |-> 0,
   bootSnapshot |-> NilSnapshot, bootData |-> [x \in {} |-> ""],
   prevData |-> [x \in {} |-> ""], prevCloseOk |-> FALSE,
   dirty |-> FALSE, wkFresh |-> FALSE, dropped |-> FALSE, plan |-> "mixed",
   clFresh |-> FALSE, older |-> "none", superseded |-> "none", outOfOrder |-> FALSE]

\* The state of the PersistentStore variables where no PersistentStore exists.
NoPersistentStore ==
  /\ ps = [closed |-> FALSE, timer |-> "none", chan |-> 0, chanClosed |-> FALSE,
           once |-> "new", panicked |-> FALSE]
  /\ cfg = [AutoSave |-> FALSE, SaveOnShutdown |-> FALSE, RetryAttempts |-> 0]
  /\ wk = [pc |-> "exited", snap |-> NilSnapshot, attempt |-> 0]
  /\ tm = [pc |-> "idle"]
  /\ pers = [snapshot |-> NilSnapshot, saveCount |-> 0, loadCount |-> 0,
             shouldFailLoad |-> FALSE, mode |-> "ok"]
  /\ ref = NewMemoryStore
  /\ hist = NoHist

(***************************************************************************)
(* JSONFilePersistence: types                                              *)
(***************************************************************************)
\* JSONFilePersistence instances on the one path, and the goroutines calling them
Insts == {1, 2}
FThreads == {1, 2}

\* the number of writes in which os.WriteFile puts the bytes of a file
FileChunks == 2

\* an error is the chain of its message and the errors it wraps
NoErr == << >>
ErrSnapshotCorrupted == "ErrSnapshotCorrupted"

\* errors.Is
Is(err, target) == \E i \in DOMAIN err : err[i] = target

\* filePath, and the name generateTempFileName gives goroutine t: filePath,
\* ".tmp." and 16 random hex digits, taken to differ between calls in progress
TargetPath == "data/store.json"
TempName(t) == TargetPath \o ".tmp." \o ToString(t)
Paths == {TargetPath} \cup {TempName(t) : t \in FThreads}

\* *StoreSnapshot with strings as byte sequences: nil, or Data (possibly a nil
\* map), Stats, Version and Timestamp
NilFileSnapshot ==
  [isNil |-> TRUE, dataNil |-> TRUE, Data |-> << >>, Stats |-> ZeroStats,
   Version |-> << >>, Timestamp |-> 0]

FileSnapshot(data, version, timestamp) ==
  [isNil |-> FALSE, dataNil |-> FALSE, Data |-> data, Stats |-> ZeroStats,
   Version |-> version, Timestamp |-> timestamp]

\* The text of a file: a JSON object with the fields of a StoreSnapshot, or
\* bytes that are not JSON. A file holds the first `written` chunks of its text.
NotJSON == [kind |-> "garbage"]
NoFile == [exists |-> FALSE, text |-> NotJSON, written |-> 0]

FIdle ==
  [pc |-> "idle", op |-> "none", t |-> 0, inst |-> 0, input |-> NilFileSnapshot,
   data |-> NotJSON, temp |-> "", err |-> NoErr, snap |-> NilFileSnapshot,
   chunk |-> 0, read |-> NoFile, statAbsent |-> FALSE, touched |-> FALSE,
   basis |-> NilFileSnapshot, clean |-> FALSE, seen |-> {}, validAtStart |-> FALSE]

NoFileHist == [calls |-> 0, lastSaved |-> NilFileSnapshot]

\* The state of the file persistence variables where no JSONFilePersistence exists.
NoFilePersistence ==
  /\ fs = [dir |-> FALSE, files |-> [p \in Paths |-> NoFile]]
  /\ mutex = [i \in Insts |-> [writer |-> 0, readers |-> {}]]
  /\ ft = [t \in FThreads |-> FIdle]
  /\ fret = FIdle
  /\ fhist = NoFileHist

(***************************************************************************)
(* Callers of a MemoryStore                                                *)
(***************************************************************************)
\* The record of a call that has returned: who called what, and what came back.
Returned(op, key, ctx, val, exp, r) ==
  [op |-> op, key |-> key, ctx |-> ctx, val |-> val, exp |-> exp,
   err |-> r.err, value |-> r.value, list |-> r.list, n |-> r.n, ok |-> r.ok]

NoCall == Returned("none", EmptyKey, "live", "", 0, Fail(NewMemoryStore, Nil))

\* A caller that is not inside any operation.
Idle == [pc |-> "idle", op |-> "none", key |-> EmptyKey, val |-> "", exp |-> 0, attempt |-> 0]

\* History: the plain map after an operation that returned err.
PlainAfter(op, key, val, err) ==
  IF err # Nil THEN plain
  ELSE CASE op \in {"Set", "CompareAndSwap"} ->
              [x \in (DOMAIN plain) \cup {key} |-> IF x = key THEN val ELSE plain[x]]
         [] op = "Delete" -> [x \in (DOMAIN plain) \ {key} |-> plain[x]]
         [] op = "Clear" -> [x \in {} |-> ""]
         [] OTHER -> plain

\* History: the mutation counts after an operation that returned err.
MutsAfter(op, key, err) ==
  IF err # Nil THEN muts
  ELSE CASE op \in {"Set", "CompareAndSwap"} -> [muts EXCEPT ![key] = @ + 1]
         [] op = "Delete" -> [muts EXCEPT ![key] = 0]
         [] op = "Clear" -> [k \in Keys |-> 0]
         [] OTHER -> muts

MaxSeenAfter(data) ==
  [k \in Keys |-> IF k \in DOMAIN data /\ data[k].Version > maxSeen[k]
                  THEN data[k].Version ELSE maxSeen[k]]

\* A caller invokes op on the store and it returns r.  The operations are atomic
\* and none reads the caller's identity, so any sequence of calls is an
\* interleaving of concurrent callers.
Invoke(op, key, ctx, val, exp, r) ==
  /\ nops < MaxOps
  /\ nops' = nops + 1
  /\ ms' = r.ms
  /\ ret' = Returned(op, key, ctx, val, exp, r)
  /\ plain' = PlainAfter(op, key, val, r.err)
  /\ muts' = MutsAfter(op, key, r.err)
  /\ maxSeen' = MaxSeenAfter(r.ms.data)
  /\ UNCHANGED <<clock, th, swaps>>
  /\ UNCHANGED psVars
  /\ UNCHANGED fileVars

CallGet(key, ctx) ==
  Invoke("Get", key, ctx, "", 0, MemoryStore_Get(ms, ctx, key))

CallSet(key, ctx, v) ==
  Invoke("Set", key, ctx, v, 0, MemoryStore_Set(ms, ctx, key, v, clock))

CallDelete(key, ctx) ==
  Invoke("Delete", key, ctx, "", 0, MemoryStore_Delete(ms, ctx, key))

CallList(ctx, order) ==
  Invoke("List", EmptyKey, ctx, "", 0, MemoryStore_List(ms, ctx, order))

CallListEntries(ctx, order) ==
  Invoke("ListEntries", EmptyKey, ctx, "", 0, MemoryStore_ListEntries(ms, ctx, order))

CallSize(ctx) ==
  Invoke("Size", EmptyKey, ctx, "", 0, MemoryStore_Size(ms, ctx))

CallClear(ctx) ==
  Invoke("Clear", EmptyKey, ctx, "", 0, MemoryStore_Clear(ms, ctx))

CallExists(key, ctx) ==
  Invoke("Exists", key, ctx, "", 0, MemoryStore_Exists(ms, ctx, key))

CallCompareAndSwap(key, ctx, e, v) ==
  Invoke("CompareAndSwap", key, ctx, v, e,
         MemoryStore_CompareAndSwap(ms, ctx, key, e, v, clock))

CallClose ==
  Invoke("Close", EmptyKey, "live", "", 0, MemoryStore_Close(ms))

\* time passes
Tick ==
  /\ clock < MaxClock
  /\ clock' = clock + 1
  /\ UNCHANGED <<ms, ret, th, nops, plain, muts, maxSeen, swaps>>
  /\ UNCHANGED psVars
  /\ UNCHANGED fileVars

Init ==
  /\ ms = NewMemoryStore
  /\ clock = 1
  /\ ret = NoCall
  /\ th = [c \in Callers |-> Idle]
  /\ nops = 0
  /\ plain = [x \in {} |-> ""]
  /\ muts = [k \in Keys |-> 0]
  /\ maxSeen = [k \in Keys |-> 0]
  /\ swaps = << >>
  /\ NoPersistentStore
  /\ NoFilePersistence

Next ==
  \/ \E key \in AllKeys, ctx \in Ctxs : CallGet(key, ctx)
  \/ \E key \in AllKeys, ctx \in Ctxs, v \in Vals : CallSet(key, ctx, v)
  \/ \E key \in AllKeys, ctx \in Ctxs : CallDelete(key, ctx)
  \/ \E ctx \in Ctxs, order \in Orders(DOMAIN ms.data) : CallList(ctx, order)
  \/ \E ctx \in Ctxs, order \in Orders(DOMAIN ms.data) : CallListEntries(ctx, order)
  \/ \E ctx \in Ctxs : CallSize(ctx)
  \/ \E ctx \in Ctxs : CallClear(ctx)
  \/ \E key \in AllKeys, ctx \in Ctxs : CallExists(key, ctx)
  \/ \E key \in AllKeys, ctx \in Ctxs, e \in Versions, v \in Vals :
       CallCompareAndSwap(key, ctx, e, v)
  \/ CallClose
  \/ Tick

Spec == Init /\ [][Next]_vars

(***************************************************************************)
(* Properties of the MemoryStore (specification Spec)                      *)
(***************************************************************************)
\* This step is a successful Set or CompareAndSwap on key k.
Wrote(k) ==
  /\ nops' = nops + 1
  /\ ret'.op \in {"Set", "CompareAndSwap"}
  /\ ret'.err = Nil
  /\ ret'.key = k

\* C2 as stated: for every key, the versions it takes never decrease and never
\* repeat, also across a Delete or Clear followed by a new Set: each version a
\* key takes is higher than every version it took before.
C2_VersionsNeverRepeat ==
  [][\A k \in Keys : Wrote(k) => ms'.data[k].Version > maxSeen[k]]_vars

\* C2, amended: for as long as a key stays present its versions never decrease
\* and never repeat (every successful Set or CompareAndSwap raises the version,
\* no other step changes it); a key that was absent (never set, deleted or
\* cleared) starts again at version 1 when it is set.
C2_VersionsIncreaseWhilePresent ==
  [][\A k \in Keys :
       /\ (Wrote(k) /\ k \in DOMAIN ms.data) => ms'.data[k].Version > ms.data[k].Version
       /\ (Wrote(k) /\ k \notin DOMAIN ms.data) => ms'.data[k].Version = 1
       /\ (~Wrote(k) /\ k \in DOMAIN ms.data /\ k \in DOMAIN ms'.data)
            => ms'.data[k].Version = ms.data[k].Version]_vars

\* C2's case: a key has been set twice, no other key was ever set, and the key is
\* at version 1: it was removed between the two Sets and is present again.
C2_Witness ==
  \E k \in Keys :
    /\ k \in DOMAIN ms.data /\ ms.data[k].Version = 1
    /\ ms.stats.SetRequests = 2
    /\ \A j \in Keys \ {k} : maxSeen[j] = 0

\* C3: while a key stays present, its stored version is the number of successful
\* Set and CompareAndSwap calls on it since it became present: 1 when created,
\* n+1 after n further successful mutations, without gap or duplicate.
C3_VersionCountsMutations ==
  \A k \in Keys : k \in DOMAIN ms.data => ms.data[k].Version = muts[k]

\* C3's case: a key created by Set, then mutated twice more, the last time by a
\* CompareAndSwap.
C3_Witness ==
  /\ ret.op = "CompareAndSwap" /\ ret.err = Nil
  /\ ret.key \in DOMAIN ms.data /\ ms.data[ret.key].Version = 3 /\ muts[ret.key] = 3

\* This step is a CompareAndSwap that passed validation, the context check and
\* the closed check.
CASStep ==
  /\ nops' = nops + 1
  /\ ret'.op = "CompareAndSwap"
  /\ Validate(ret'.key) = Nil /\ ret'.ctx = "live" /\ ~ms.closed

\* C4: CompareAndSwap(k, e, d) on a present key succeeds iff the stored version
\* is e; on success the stored and the returned value have data d, version e+1
\* and the createdAt the key had; on an absent key it returns ErrKeyNotFound and
\* creates nothing.
C4_CompareAndSwapContract ==
  [][CASStep =>
       IF ret'.key \in DOMAIN ms.data
       THEN /\ (ret'.err = Nil) <=> (ms.data[ret'.key].Version = ret'.exp)
            /\ ret'.err = Nil =>
                 /\ ms'.data[ret'.key] = ret'.value
                 /\ ret'.value.Data = ret'.val
                 /\ ret'.value.Version = ret'.exp + 1
                 /\ ret'.value.CreatedAt = ms.data[ret'.key].CreatedAt
       ELSE ret'.err = ErrKeyNotFound /\ ms'.data = ms.data]_vars

\* C4's case: a CompareAndSwap has succeeded on a key created at an earlier time.
C4_Witness ==
  /\ ret.op = "CompareAndSwap" /\ ret.err = Nil
  /\ ret.value.Data = ret.val /\ ret.value.Version = ret.exp + 1
  /\ ret.value.CreatedAt < ret.value.UpdatedAt

\* C5: a CompareAndSwap whose expectedVersion differs from the stored version
\* returns ErrConcurrentModification with the current stored value and leaves
\* the whole store (that key's data, version, timestamps, every other key, the
\* statistics) as it was.
C5_MismatchLeavesStoreUnchanged ==
  [][(CASStep /\ ret'.key \in DOMAIN ms.data /\ ms.data[ret'.key].Version # ret'.exp)
       => /\ ret'.err = ErrConcurrentModification
          /\ ret'.value = ms.data[ret'.key]
          /\ ms' = ms]_vars

\* C5's case: a mismatching CompareAndSwap has returned, with another key present.
C5_Witness ==
  /\ ret.op = "CompareAndSwap" /\ ret.err = ErrConcurrentModification
  /\ ret.key \in DOMAIN ms.data /\ ret.exp # ms.data[ret.key].Version
  /\ Cardinality(DOMAIN ms.data) = 2

\* q holds every element of S exactly once.
ExactlyOnce(q, S) ==
  /\ Len(q) = Cardinality(S)
  /\ \A x \in S : \E i \in DOMAIN q : q[i] = x
  /\ \A i \in DOMAIN q : q[i] \in S

\* C7: an open MemoryStore refines the plain map driven by the successful
\* mutations: Get returns the last data written or ErrKeyNotFound, Exists is
\* true exactly when Get succeeds, Size counts the present keys, List and
\* ListEntries hold exactly the present keys, once each, whatever the order.
C7_RefinesPlainMap ==
  ~ms.closed =>
    /\ \A k \in Keys :
         LET g == MemoryStore_Get(ms, "live", k)
             x == MemoryStore_Exists(ms, "live", k)
         IN /\ IF k \in DOMAIN plain
               THEN g.err = Nil /\ g.value.Data = plain[k]
               ELSE g.err = ErrKeyNotFound
            /\ x.err = Nil /\ (x.ok <=> (g.err = Nil))
    /\ MemoryStore_Size(ms, "live").err = Nil
    /\ MemoryStore_Size(ms, "live").n = Cardinality(DOMAIN plain)
    /\ \A order \in Orders(DOMAIN ms.data) :
         LET l == MemoryStore_List(ms, "live", order)
             e == MemoryStore_ListEntries(ms, "live", order)
         IN /\ l.err = Nil /\ ExactlyOnce(l.list, DOMAIN plain)
            /\ e.err = Nil
            /\ ExactlyOnce([i \in DOMAIN e.list |-> e.list[i].Key], DOMAIN plain)
            /\ \A i \in DOMAIN e.list : e.list[i].Value.Data = plain[e.list[i].Key]

\* C7's case: a Delete has just removed a key and another key is still present.
C7_Witness ==
  /\ ret.op = "Delete" /\ ret.err = Nil /\ ~ms.closed
  /\ ret.key \notin DOMAIN plain /\ Cardinality(DOMAIN plain) = 1

\* C24: with a clock that never goes backwards, every stored value has
\* UpdatedAt >= CreatedAt in every reachable state, and no step changes the
\* CreatedAt of a key that is present before and after it: a Set or a
\* CompareAndSwap of a present key keeps the CreatedAt of its first insertion.
C24_CreatedAtFixed ==
  /\ [](\A k \in DOMAIN ms.data : ms.data[k].UpdatedAt >= ms.data[k].CreatedAt)
  /\ [][\A k \in (DOMAIN ms.data) \cap (DOMAIN ms'.data) :
          ms'.data[k].CreatedAt = ms.data[k].CreatedAt]_vars

\* C24's case: a key inserted at time 1 has been updated by a successful
\* CompareAndSwap after the clock moved on.
C24_Witness ==
  \E k \in Keys :
    /\ k \in DOMAIN ms.data
    /\ ret.op = "CompareAndSwap"
    /\ ret.key = k
    /\ ret.err = Nil
    /\ ms.data[k].CreatedAt = 1
    /\ ms.data[k].UpdatedAt = MaxClock
    /\ ms.data[k].Version = 2

(***************************************************************************)
(* Get-then-CompareAndSwap loops on one contended key                      *)
(* (TestMemoryStore_CompareAndSwapHighContention): specification SpecCAS   *)
(***************************************************************************)
Loopers == {1, 2, 3}
ContendedKey == KeyA

\* A goroutine before the Get of its next attempt.
AtGet(attempt) ==
  [pc |-> IF attempt < MaxAttempts THEN "get" ELSE "done",
   op |-> "Get", key |-> ContendedKey, val |-> "", exp |-> 0, attempt |-> attempt]

\* currentValue, err := store.Get(ctx, key); if err != nil { continue }
LoopGet(c) ==
  /\ th[c].pc = "get"
  /\ LET r == MemoryStore_Get(ms, "live", ContendedKey)
     IN /\ ms' = r.ms
        /\ th' = [th EXCEPT ![c] =
                    IF r.err # Nil THEN AtGet(th[c].attempt + 1)
                    ELSE [@ EXCEPT !.pc = "cas", !.op = "CompareAndSwap",
                                   !.exp = r.value.Version]]
  /\ UNCHANGED <<clock, ret, nops, plain, muts, maxSeen, swaps>>
  /\ UNCHANGED psVars
  /\ UNCHANGED fileVars

\* _, err = store.CompareAndSwap(ctx, key, currentValue.Version, newValue)
LoopCompareAndSwap(c, newValue) ==
  /\ th[c].pc = "cas"
  /\ LET r == MemoryStore_CompareAndSwap(ms, "live", ContendedKey, th[c].exp, newValue, clock)
     IN /\ ms' = r.ms
        /\ ret' = Returned("CompareAndSwap", ContendedKey, "live", newValue, th[c].exp, r)
        /\ swaps' = IF r.err = Nil THEN Append(swaps, th[c].exp) ELSE swaps
  /\ th' = [th EXCEPT ![c] = AtGet(th[c].attempt + 1)]
  /\ UNCHANGED <<clock, nops, plain, muts, maxSeen>>
  /\ UNCHANGED psVars
  /\ UNCHANGED fileVars

LoopTick ==
  /\ clock < MaxClock
  /\ clock' = clock + 1
  /\ UNCHANGED <<ms, ret, th, nops, plain, muts, maxSeen, swaps>>
  /\ UNCHANGED psVars
  /\ UNCHANGED fileVars

\* store.Set(ctx, key, initialValue), then the goroutines start
InitCAS ==
  /\ ms = MemoryStore_Set(NewMemoryStore, "live", ContendedKey, "v1", 1).ms
  /\ clock = 1
  /\ ret = NoCall
  /\ th = [c \in Loopers |-> AtGet(0)]
  /\ nops = 0
  /\ plain = [x \in {} |-> ""]
  /\ muts = [k \in Keys |-> 0]
  /\ maxSeen = [k \in Keys |-> 0]
  /\ swaps = << >>
  /\ NoPersistentStore
  /\ NoFilePersistence

NextCAS ==
  \/ \E c \in Loopers : LoopGet(c)
  \/ \E c \in Loopers, v \in Vals : LoopCompareAndSwap(c, v)
  \/ LoopTick

SpecCAS == InitCAS /\ [][NextCAS]_vars

\* C6: with callers running Get-then-CompareAndSwap loops on one key that stays
\* present, no two successful CompareAndSwap calls carried the same
\* expectedVersion, and the key's version is its initial version (1) plus the
\* number of CompareAndSwap calls that returned success.
C6_OneWinnerPerVersion ==
  /\ \A i, j \in DOMAIN swaps : i # j => swaps[i] # swaps[j]
  /\ ms.data[ContendedKey].Version = 1 + Len(swaps)

\* C6's case: every loop has finished, at least two swaps succeeded and at least
\* one CompareAndSwap lost the race.
C6_Witness ==
  /\ \A c \in Loopers : th[c].pc = "done"
  /\ Len(swaps) >= 2
  /\ Len(swaps) < Cardinality(Loopers) * MaxAttempts
  /\ ret.err = ErrConcurrentModification

(***************************************************************************)
(* PersistentStore (persistent_store.go), over a MemoryStore and a         *)
(* Persistence that behaves like the tests' mockPersistence.               *)
(* A goroutine's step is what it does between two points where another     *)
(* goroutine can interfere: one read of ps.closed under ps.mutex, one call  *)
(* of the underlying store, one channel operation, one Save call.          *)
(***************************************************************************)
MaxCalls == 2
MaxFires == 1
RetryAttemptsChoices == {1}

PSKeys == {KeyA}
PSVals == {"v1"}
SaveModes == {"ok", "failOnce", "failAlways"}
SaveError == "mock save error"

\* NewPersistentStore: "Apply defaults"
ApplyDefaults(config) ==
  [config EXCEPT !.RetryAttempts = IF @ = 0 THEN DefaultRetryAttempts ELSE @]

\* the key -> data mapping of a map of Values
DataOf(data) == [k \in DOMAIN data |-> data[k].Data]

ErrNoSnapshotFound == "ErrNoSnapshotFound"
LoadError == "mock load error"

\* mockPersistence.Load: counts the call, fails if told to, reports a missing
\* snapshot, else hands back the snapshot it holds.
Load(p) ==
  LET counted == [p EXCEPT !.loadCount = @ + 1]
  IN IF p.shouldFailLoad THEN [err |-> LoadError, snap |-> NilSnapshot, pers |-> counted]
     ELSE IF p.snapshot.isNil
          THEN [err |-> ErrNoSnapshotFound, snap |-> NilSnapshot, pers |-> counted]
          ELSE [err |-> Nil, snap |-> p.snapshot, pers |-> counted]

\* for key, value := range snapshot.Data { ps.store.Set(ctx, Key(key), value) }
RECURSIVE SetAll(_, _, _, _)
SetAll(s, data, todo, now) ==
  IF todo = {} THEN s
  ELSE LET k == CHOOSE x \in todo : TRUE
       IN SetAll(MemoryStore_Set(s, "live", k, data[k], now).ms, data, todo \ {k}, now)

\* loadData: one Load; no snapshot is no error, another Load error is returned
\* wrapped; a loaded snapshot is Set key by key, a failed Set is logged only.
loadDataRetry(s, p, now) ==
  LET l == Load(p)
  IN IF l.err = ErrNoSnapshotFound THEN [ms |-> s, err |-> Nil, pers |-> l.pers]
     ELSE IF l.err # Nil
          THEN [ms |-> s, err |-> "failed to load snapshot: " \o Load(l.pers).err,
                pers |-> Load(l.pers).pers]
          ELSE [ms |-> SetAll(s, l.snap.Data, DOMAIN l.snap.Data, now), err |-> Nil,
                pers |-> l.pers]

loadData(s, p, now) ==
  LET l == Load(p)
  IN IF l.err = ErrNoSnapshotFound THEN [ms |-> s, err |-> Nil, pers |-> l.pers]
     ELSE IF l.err # Nil
          THEN [ms |-> s, err |-> "failed to load snapshot: " \o l.err, pers |-> l.pers]
          ELSE [ms |-> SetAll(s, l.snap.Data, DOMAIN l.snap.Data, now), err |-> Nil,
                pers |-> l.pers]

\* createSnapshot, from the entries ListEntries returned: data[string(entry.Key)] =
\* entry.Value.Data for each entry, and the StoreSnapshot around it.
SnapshotOfEntries(list, now) ==
  LET entries == {list[i] : i \in DOMAIN list}
      data == [k \in {e.Key : e \in entries} |->
                 (CHOOSE e \in entries : e.Key = k).Value.Data]
  IN [isNil |-> FALSE,
      Data |-> data,
      Version |-> "1.0",
      Timestamp |-> now,
      Stats |-> [ZeroStats EXCEPT !.TotalKeys = Cardinality(DOMAIN data)]]

createSnapshot(s, now) ==
  LET r == MemoryStore_ListEntries(s, "live", CHOOSE o \in Orders(DOMAIN s.data) : TRUE)
  IN IF r.err # Nil THEN [err |-> r.err, snap |-> NilSnapshot]
     ELSE [err |-> Nil, snap |-> SnapshotOfEntries(r.list, now)]

\* mockPersistence.Save: counts the call, fails if told to, else keeps the snapshot.
\* mode "ok" is shouldFailSave = false, "failAlways" is shouldFailSave = true, and
\* "failOnce" is shouldFailSave = true until one Save has failed (setFailSave(false)).
SaveErr(p) == IF p.mode = "ok" THEN Nil ELSE SaveError

Save(p, snapshot) ==
  [p EXCEPT !.saveCount = @ + 1,
            !.snapshot = IF SaveErr(p) = Nil THEN snapshot ELSE @,
            !.mode = IF @ = "failOnce" THEN "ok" ELSE @]

\* fmt.Errorf("failed to save after %d attempts: %w", ...)
RetryError(n, lastErr) ==
  "failed to save after " \o ToString(n) \o " attempts: " \o lastErr

\* saveWithRetry: for attempt := 0; attempt <= ps.config.RetryAttempts. With a
\* negative RetryAttempts the loop body never runs and the error wraps a nil
\* lastErr.
LoopEntered == 0 <= cfg.RetryAttempts
NilError == "%!w(<nil>)"

\* One pass of saveWithRetry's loop: the Save call, then return, or sleep and go on.
SaveAttemptAgain(p, snapshot, attempt) ==
  [pers |-> Save(p, snapshot),
   failed |-> SaveErr(p) # Nil,
   done |-> attempt >= cfg.RetryAttempts,
   err |-> IF SaveErr(p) = Nil THEN Nil ELSE RetryError(cfg.RetryAttempts + 1, SaveErr(p))]

SaveAttemptShort(p, snapshot, attempt) ==
  [pers |-> Save(p, snapshot),
   failed |-> SaveErr(p) # Nil,
   done |-> SaveErr(p) = Nil \/ attempt + 1 >= cfg.RetryAttempts,
   err |-> IF SaveErr(p) = Nil THEN Nil ELSE RetryError(cfg.RetryAttempts + 1, SaveErr(p))]

SaveAttempt(p, snapshot, attempt) ==
  [pers |-> Save(p, snapshot),
   failed |-> SaveErr(p) # Nil,
   done |-> SaveErr(p) = Nil \/ attempt >= cfg.RetryAttempts,
   err |-> IF SaveErr(p) = Nil THEN Nil ELSE RetryError(cfg.RetryAttempts + 1, SaveErr(p))]

\* triggerSave's select: a send on the closed channel panics, a send on a full
\* channel is dropped.
TrySendUnlessFlushing(p) ==
  IF p.chanClosed THEN [p EXCEPT !.panicked = TRUE]
  ELSE IF p.chan < SaveChannelCap /\ wk.pc = "recv" THEN [p EXCEPT !.chan = @ + 1]
  ELSE p

TrySend(p) ==
  IF p.chanClosed THEN [p EXCEPT !.panicked = TRUE]
  ELSE IF p.chan < SaveChannelCap THEN [p EXCEPT !.chan = @ + 1]
  ELSE p

\* triggerSave's select has a default case: it is never blocked, whatever the
\* channel holds. (A plain send would wait for room in the channel.)
SendReadyWhenRoom(p) == p.chanClosed \/ p.chan < SaveChannelCap

SendReady(p) == TRUE

IsMutation(op) == op \in {"Set", "Delete", "Clear", "CompareAndSwap"}

\* ps.store.<op>(ctx, ...)
Underlying(op, s, ctx, key, val, exp, order, now) ==
  CASE op = "Get" -> MemoryStore_Get(s, ctx, key)
    [] op = "Set" -> MemoryStore_Set(s, ctx, key, val, now)
    [] op = "Delete" -> MemoryStore_Delete(s, ctx, key)
    [] op = "List" -> MemoryStore_List(s, ctx, order)
    [] op = "ListEntries" -> MemoryStore_ListEntries(s, ctx, order)
    [] op = "Size" -> MemoryStore_Size(s, ctx)
    [] op = "Clear" -> MemoryStore_Clear(s, ctx)
    [] op = "Exists" -> MemoryStore_Exists(s, ctx, key)
    [] op = "CompareAndSwap" -> MemoryStore_CompareAndSwap(s, ctx, key, exp, val, now)

\* What a mutating method returns, given what the underlying store returned.
MutationReturnSaveError(u) == IF pers.mode = "ok" THEN u ELSE [u EXCEPT !.err = SaveError]

MutationReturn(u) == u

\* What a method returns when it finds the store closed.
ClosedReturnNil(s) == Out(Fail(s, Nil))

ClosedReturn(s) == Out(Fail(s, ErrStoreClosed))

\* A panic (a send on the closed channel, closing the closed channel) ends the
\* process: nothing runs after it.
Running == ~ps.panicked

\* The call that returned last: who called what, and what came back.
PSReturned(c, t, out) ==
  [c |-> c, op |-> t.op, key |-> t.key, ctx |-> t.ctx, val |-> t.val, exp |-> t.exp,
   enteredClosed |-> t.enteredClosed, under |-> t.under, out |-> out, refOut |-> t.refOut,
   from |-> t.pc, late |-> t.late]

PSNoCall == PSReturned(0, PSIdle, NoOut)

\* What a method does first once it has found the store open: it calls the
\* underlying store; triggerSave comes after that call has returned nil.
FirstCallTrigger(op) == IF IsMutation(op) /\ cfg.AutoSave THEN "trigger" ELSE "invoke"

FirstCall(op) == "invoke"

\* Caller c enters a method other than Close: it reads ps.closed.
PSEnterBounded(c, op, key, ctx, val, exp, refOut, bound) ==
  /\ Running
  /\ th[c].pc = "idle"
  /\ hist.calls < bound
  /\ hist' = [hist EXCEPT !.calls = @ + 1]
  /\ LET t == [PSIdle EXCEPT !.op = op, !.key = key, !.ctx = ctx, !.val = val, !.exp = exp,
                            !.refOut = refOut, !.enteredClosed = ps.closed]
     IN IF ps.closed
        THEN /\ ret' = PSReturned(c, t, ClosedReturn(ms))
             /\ UNCHANGED th
        ELSE /\ th' = [th EXCEPT ![c] = [t EXCEPT !.pc = FirstCall(op)]]
             /\ UNCHANGED ret

PSEnterCore(c, op, key, ctx, val, exp, refOut) ==
  PSEnterBounded(c, op, key, ctx, val, exp, refOut, MaxCalls)

PSEnter(c, op, key, ctx, val, exp) ==
  /\ PSEnterCore(c, op, key, ctx, val, exp, NoOut)
  /\ UNCHANGED <<ms, clock, nops, plain, muts, maxSeen, swaps>>
  /\ UNCHANGED <<ps, cfg, wk, tm, pers, ref>>
  /\ UNCHANGED fileVars

\* if err != nil { return err }; if ps.config.AutoSave { ps.triggerSave() }
HookedWithoutAutoSave(op, err) == IsMutation(op) /\ err = Nil

Hooked(op, err) == IsMutation(op) /\ err = Nil /\ cfg.AutoSave

\* Caller c calls the underlying store; a read or a failed mutation returns here.
PSInvoke(c) ==
  /\ Running
  /\ th[c].pc = "invoke"
  /\ \E order \in Orders(DOMAIN ms.data) :
     LET t == th[c]
         r == Underlying(t.op, ms, t.ctx, t.key, t.val, t.exp, order, clock)
         late == IsMutation(t.op) /\ r.err = Nil /\ hist.finalSaves > 0
     IN /\ ms' = r.ms
        /\ IF Hooked(t.op, r.err)
           THEN /\ th' = [th EXCEPT ![c] = [t EXCEPT !.pc = "trigger", !.under = Out(r),
                                                    !.late = late]]
                /\ UNCHANGED ret
           ELSE /\ th' = [th EXCEPT ![c] = PSIdle]
                /\ ret' = PSReturned(c, [t EXCEPT !.under = Out(r), !.late = late],
                                     IF IsMutation(t.op) THEN MutationReturn(Out(r))
                                     ELSE Out(r))
        /\ hist' = [hist EXCEPT !.overlap =
                      @ \/ (hist.closeCalled /\ r.ms.data # ms.data),
                                !.dirty = @ \/ (IsMutation(t.op) /\ r.err = Nil),
                                !.wkFresh = @ /\ ~(IsMutation(t.op) /\ r.err = Nil),
                                !.clFresh = @ /\ ~(IsMutation(t.op) /\ r.err = Nil)]
  /\ UNCHANGED <<clock, nops, plain, muts, maxSeen, swaps>>
  /\ UNCHANGED <<ps, cfg, wk, tm, pers, ref>>
  /\ UNCHANGED fileVars

\* triggerSave, first half: read ps.closed; return if closed.
PSTrigger(c) ==
  /\ Running
  /\ th[c].pc = "trigger"
  /\ IF ps.closed
     THEN /\ th' = [th EXCEPT ![c] = PSIdle]
          /\ ret' = PSReturned(c, th[c], MutationReturn(th[c].under))
     ELSE /\ th' = [th EXCEPT ![c] = [@ EXCEPT !.pc = "send"]]
          /\ UNCHANGED ret
  /\ UNCHANGED <<ms, clock, nops, plain, muts, maxSeen, swaps>>
  /\ UNCHANGED psVars
  /\ UNCHANGED fileVars

\* triggerSave, second half: the non-blocking send; then the method returns.
PSSend(c) ==
  /\ Running
  /\ th[c].pc = "send"
  /\ SendReady(ps)
  /\ ps' = TrySend(ps)
  /\ IF ps.chanClosed
     THEN /\ th' = [th EXCEPT ![c] = [@ EXCEPT !.pc = "panicked"]]
          /\ UNCHANGED ret
     ELSE /\ th' = [th EXCEPT ![c] = PSIdle]
          /\ ret' = PSReturned(c, th[c], MutationReturn(th[c].under))
  /\ hist' = [hist EXCEPT !.sentAfterClose = @ \/ hist.closeCalled,
                          !.dropped = @ \/ (~ps.chanClosed /\ ps.chan >= SaveChannelCap)]
  /\ UNCHANGED <<ms, clock, nops, plain, muts, maxSeen, swaps>>
  /\ UNCHANGED <<cfg, wk, tm, pers, ref>>
  /\ UNCHANGED fileVars

\* ps.shutdownOnce.Do: the first caller runs the function, a caller that arrives
\* while it runs waits for it, a later one returns at once.
OnceDoAlways(once) == "closeMark"

OnceDo(once) ==
  CASE once = "new" -> "closeMark"
    [] once = "running" -> "onceWait"
    [] once = "done" -> "idle"

\* Close, up to shutdownOnce.Do
CloseEnterCore(c, refOut) ==
  /\ Running
  /\ th[c].pc = "idle"
  /\ hist.calls < MaxCalls
  /\ LET t == [PSIdle EXCEPT !.op = "Close", !.refOut = refOut,
                            !.enteredClosed = ps.closed]
     IN IF OnceDo(ps.once) = "idle"
        THEN /\ ret' = PSReturned(c, t, Out(Fail(ms, t.closeErr)))
             /\ UNCHANGED th
        ELSE /\ th' = [th EXCEPT ![c] = [t EXCEPT !.pc = OnceDo(ps.once)]]
             /\ UNCHANGED ret
  /\ ps' = [ps EXCEPT !.once = IF @ = "new" THEN "running" ELSE @]
  /\ hist' = [hist EXCEPT !.calls = @ + 1,
                          !.runner = IF OnceDo(ps.once) = "closeMark" THEN c ELSE @,
                          !.closeCalled = TRUE,
                          !.overlap = @ \/ \E d \in Callers \ {c} : th[d].pc # "idle",
                          !.closeCallData = IF ps.once = "new" THEN DataOf(ms.data) ELSE @,
                          !.saveCountAtClose = IF ps.once = "new" THEN pers.saveCount ELSE @,
                          !.unflushedAtClose =
                             IF ps.once = "new"
                             THEN \E k \in DOMAIN ms.data :
                                    \/ pers.snapshot.isNil
                                    \/ k \notin DOMAIN pers.snapshot.Data
                                    \/ pers.snapshot.Data[k] # ms.data[k].Data
                             ELSE @,
                          !.workerIdleAtClose =
                             IF ps.once = "new" THEN wk.pc = "recv" /\ ps.chan = 0 ELSE @]

CloseEnter(c) ==
  /\ CloseEnterCore(c, NoOut)
  /\ UNCHANGED <<ms, clock, nops, plain, muts, maxSeen, swaps>>
  /\ UNCHANGED <<cfg, wk, tm, pers, ref>>
  /\ UNCHANGED fileVars

\* A caller waiting in shutdownOnce.Do returns once the function has returned;
\* its own closeErr was never assigned.
OnceWait(c) ==
  /\ Running
  /\ th[c].pc = "onceWait"
  /\ ps.once = "done"
  /\ th' = [th EXCEPT ![c] = PSIdle]
  /\ ret' = PSReturned(c, th[c], Out(Fail(ms, th[c].closeErr)))
  /\ UNCHANGED <<ms, clock, nops, plain, muts, maxSeen, swaps>>
  /\ UNCHANGED psVars
  /\ UNCHANGED fileVars

\* ps.closed = true and periodicSaveTimer.Stop(), under ps.mutex
CloseMark(c) ==
  /\ Running
  /\ th[c].pc = "closeMark"
  /\ ps' = [ps EXCEPT !.closed = TRUE,
                      !.timer = IF @ = "armed" THEN "stopped" ELSE @]
  /\ th' = [th EXCEPT ![c] =
              [@ EXCEPT !.pc = IF cfg.SaveOnShutdown THEN "closeSnapshot" ELSE "closeChan"]]
  /\ hist' = [hist EXCEPT !.marks = @ + 1]
  /\ UNCHANGED <<ms, clock, ret, nops, plain, muts, maxSeen, swaps>>
  /\ UNCHANGED <<cfg, wk, tm, pers, ref>>
  /\ UNCHANGED fileVars

\* the final createSnapshot
CloseSnapshot(c) ==
  /\ Running
  /\ th[c].pc = "closeSnapshot"
  /\ LET r == createSnapshot(ms, clock)
         held == r.err = Nil /\ LoopEntered
     IN /\ th' = [th EXCEPT ![c] =
                    IF r.err # Nil THEN [@ EXCEPT !.pc = "closeChan"]
                    ELSE IF ~LoopEntered
                         THEN [@ EXCEPT !.pc = "closeChan",
                                        !.closeErr = RetryError(cfg.RetryAttempts + 1, NilError)]
                    ELSE [@ EXCEPT !.pc = "closeSave", !.snap = r.snap, !.attempt = 0]]
        /\ hist' = [hist EXCEPT !.finalSaves = IF r.err # Nil THEN @ ELSE @ + 1,
                                !.clFresh = held,
                                !.older = IF ~held THEN @
                                          ELSE IF wk.pc = "save" /\ ~hist.wkFresh
                                               THEN "worker" ELSE "none"]
  /\ UNCHANGED <<ms, clock, ret, nops, plain, muts, maxSeen, swaps>>
  /\ UNCHANGED <<ps, cfg, wk, tm, pers, ref>>
  /\ UNCHANGED fileVars

\* one attempt of the final saveWithRetry
CloseSave(c) ==
  /\ Running
  /\ th[c].pc = "closeSave"
  /\ LET a == SaveAttempt(pers, th[c].snap, th[c].attempt)
     IN /\ pers' = a.pers
        /\ th' = [th EXCEPT ![c] =
                    IF a.done THEN [@ EXCEPT !.pc = "closeChan", !.closeErr = a.err]
                    ELSE [@ EXCEPT !.attempt = @ + 1]]
        /\ hist' = [hist EXCEPT !.saveFailed = @ \/ a.failed,
                                !.outOfOrder = @ \/ (~a.failed /\ hist.superseded = "final"),
                                !.superseded = IF ~a.failed /\ hist.older = "worker"
                                               THEN "worker" ELSE @,
                                !.older = IF a.done THEN "none" ELSE @,
                                !.clFresh = @ /\ ~a.done]
  /\ UNCHANGED <<ms, clock, ret, nops, plain, muts, maxSeen, swaps>>
  /\ UNCHANGED <<ps, cfg, wk, tm, ref>>
  /\ UNCHANGED fileVars

\* close(ps.saveChannel)
CloseChan(c) ==
  /\ Running
  /\ th[c].pc = "closeChan"
  /\ ps' = [ps EXCEPT !.chanClosed = TRUE, !.panicked = ps.chanClosed]
  /\ th' = [th EXCEPT ![c] = [@ EXCEPT !.pc = "closeWait"]]
  /\ hist' = [hist EXCEPT !.chanCloses = @ + 1]
  /\ UNCHANGED <<ms, clock, ret, nops, plain, muts, maxSeen, swaps>>
  /\ UNCHANGED <<cfg, wk, tm, pers, ref>>
  /\ UNCHANGED fileVars

\* ps.store.Close(), whatever the final save did
CloseUnderlyingUnlessFailed(s, closeErr) ==
  IF closeErr # Nil THEN Fail(s, Nil) ELSE MemoryStore_Close(s)

CloseUnderlying(s, closeErr) == MemoryStore_Close(s)

\* ps.wg.Wait() returns once saveProcessor has returned
WaitGroupDoneAtOnce == TRUE

WaitGroupDone == wk.pc = "exited"

\* ps.wg.Wait(), then ps.store.Close(); the function returns and Close returns closeErr
CloseStore(c) ==
  /\ Running
  /\ th[c].pc = "closeWait"
  /\ WaitGroupDone
  /\ ms' = CloseUnderlying(ms, th[c].closeErr).ms
  /\ ps' = [ps EXCEPT !.once = "done"]
  /\ th' = [th EXCEPT ![c] = PSIdle]
  /\ ret' = PSReturned(c, th[c], Out(Fail(ms, IF th[c].closeErr = Nil
                                              THEN CloseUnderlying(ms, th[c].closeErr).err
                                              ELSE th[c].closeErr)))
  /\ hist' = [hist EXCEPT !.storeCloses = @ + 1]
  /\ UNCHANGED <<clock, nops, plain, muts, maxSeen, swaps>>
  /\ UNCHANGED <<cfg, wk, tm, pers, ref>>
  /\ UNCHANGED fileVars

\* saveProcessor: for range ps.saveChannel
WorkerReceive ==
  /\ Running
  /\ wk.pc = "recv"
  /\ ps.chan > 0 \/ ps.chanClosed
  /\ IF ps.chan > 0
     THEN /\ ps' = [ps EXCEPT !.chan = @ - 1]
          /\ wk' = [wk EXCEPT !.pc = "check"]
     ELSE /\ wk' = [wk EXCEPT !.pc = "exited"]
          /\ UNCHANGED ps
  /\ UNCHANGED msVars
  /\ UNCHANGED <<cfg, tm, pers, ref, hist>>
  /\ UNCHANGED fileVars

\* saveProcessor: read ps.closed; return if closed
WorkerCheck ==
  /\ Running
  /\ wk.pc = "check"
  /\ wk' = [wk EXCEPT !.pc = IF ps.closed THEN "exited" ELSE "snapshot"]
  /\ UNCHANGED msVars
  /\ UNCHANGED <<ps, cfg, tm, pers, ref, hist>>
  /\ UNCHANGED fileVars

\* saveProcessor: createSnapshot
WorkerSnapshot ==
  /\ Running
  /\ wk.pc = "snapshot"
  /\ LET r == createSnapshot(ms, clock)
         held == r.err = Nil /\ LoopEntered
     IN /\ wk' = IF ~held THEN [wk EXCEPT !.pc = "recv"]
                 ELSE [wk EXCEPT !.pc = "save", !.snap = r.snap, !.attempt = 0]
        /\ hist' = [hist EXCEPT !.wkFresh = held,
                                !.older = IF ~held THEN @
                                          ELSE IF (\E c \in Callers : th[c].pc = "closeSave")
                                                  /\ ~hist.clFresh
                                               THEN "final" ELSE "none",
                                !.superseded = IF held /\ @ = "worker" THEN "none"
                                               ELSE @]
  /\ UNCHANGED msVars
  /\ UNCHANGED <<ps, cfg, tm, pers, ref>>
  /\ UNCHANGED fileVars

\* saveProcessor: where the loop goes once saveWithRetry has returned err. The
\* error is logged and the `for range` takes the next signal.
AfterFlushExitOnError(err) == IF err # Nil THEN "exited" ELSE "recv"

AfterFlush(err) == "recv"

\* saveProcessor: one attempt of saveWithRetry
WorkerSave ==
  /\ Running
  /\ wk.pc = "save"
  /\ LET a == SaveAttempt(pers, wk.snap, wk.attempt)
     IN /\ pers' = a.pers
        /\ wk' = IF a.done THEN [wk EXCEPT !.pc = AfterFlush(a.err), !.snap = NilSnapshot,
                                           !.attempt = 0]
                 ELSE [wk EXCEPT !.attempt = @ + 1]
        /\ hist' = [hist EXCEPT !.saveFailed = @ \/ a.failed,
                                !.dirty = @ /\ ~(hist.wkFresh /\ ~a.failed),
                                !.wkFresh = @ /\ ~a.done,
                                !.outOfOrder = @ \/ (~a.failed /\ hist.superseded = "worker"),
                                !.superseded = IF ~a.failed /\ hist.older = "final"
                                               THEN "final"
                                               ELSE IF a.done /\ @ = "worker" THEN "none"
                                               ELSE @,
                                !.older = IF a.done THEN "none" ELSE @]
  /\ UNCHANGED msVars
  /\ UNCHANGED <<ps, cfg, tm, ref>>
  /\ UNCHANGED fileVars

\* the periodic timer expires and its function starts
TimerFire ==
  /\ Running
  /\ ps.timer = "armed"
  /\ hist.fires < MaxFires
  /\ ps' = [ps EXCEPT !.timer = "fired"]
  /\ tm' = [tm EXCEPT !.pc = "trigger"]
  /\ hist' = [hist EXCEPT !.fires = @ + 1]
  /\ UNCHANGED msVars
  /\ UNCHANGED <<cfg, wk, pers, ref>>
  /\ UNCHANGED fileVars

\* the timer function's triggerSave, first half
TimerTrigger ==
  /\ Running
  /\ tm.pc = "trigger"
  /\ tm' = [tm EXCEPT !.pc = IF ps.closed THEN "recheck" ELSE "send"]
  /\ UNCHANGED msVars
  /\ UNCHANGED <<ps, cfg, wk, pers, ref, hist>>
  /\ UNCHANGED fileVars

\* the timer function's triggerSave, second half
TimerSend ==
  /\ Running
  /\ tm.pc = "send"
  /\ SendReady(ps)
  /\ ps' = TrySend(ps)
  /\ tm' = [tm EXCEPT !.pc = IF ps.chanClosed THEN "panicked" ELSE "recheck"]
  /\ hist' = [hist EXCEPT !.sentAfterClose = @ \/ hist.closeCalled]
  /\ UNCHANGED msVars
  /\ UNCHANGED <<cfg, wk, pers, ref>>
  /\ UNCHANGED fileVars

\* the timer function reads ps.closed again
TimerRecheck ==
  /\ Running
  /\ tm.pc = "recheck"
  /\ tm' = [tm EXCEPT !.pc = IF ps.closed THEN "idle" ELSE "rearm"]
  /\ UNCHANGED msVars
  /\ UNCHANGED <<ps, cfg, wk, pers, ref, hist>>
  /\ UNCHANGED fileVars

\* startPeriodicSave, under ps.mutex
TimerRearm ==
  /\ Running
  /\ tm.pc = "rearm"
  /\ ps' = [ps EXCEPT !.timer = IF ps.closed THEN @ ELSE "armed"]
  /\ tm' = [tm EXCEPT !.pc = "idle"]
  /\ UNCHANGED msVars
  /\ UNCHANGED <<cfg, wk, pers, ref, hist>>
  /\ UNCHANGED fileVars

\* What the persistence holds when the store is constructed.
InitialSnapshots == {NilSnapshot}

\* NewPersistentStore over a new MemoryStore and a persistence that holds
\* snapshot and whose Save behaves as mode says; the one Load has been made.
\* NewPersistentStore(store, persistence, config) with neither argument nil:
\* defaults, loadData whose error is logged only, the worker started and the
\* timer armed; the error returned is nil.
NewPersistentStoreOver(store, p, config, now) ==
  [cfg |-> ApplyDefaults(config),
   pers |-> loadData(store, p, now).pers,
   ms |-> loadData(store, p, now).ms,
   ps |-> [closed |-> FALSE, timer |-> "armed", chan |-> 0, chanClosed |-> FALSE,
           once |-> "new", panicked |-> FALSE],
   wk |-> [pc |-> "recv", snap |-> NilSnapshot, attempt |-> 0],
   tm |-> [pc |-> "idle"],
   err |-> Nil]

NewPersistentStore(config, mode, snapshot) ==
  LET p == [snapshot |-> snapshot, saveCount |-> 0, loadCount |-> 0,
            shouldFailLoad |-> FALSE, mode |-> mode]
      b == NewPersistentStoreOver(NewMemoryStore, p, config, 1)
  IN /\ cfg = b.cfg
     /\ pers = b.pers
     /\ ms = b.ms
     /\ ps = b.ps
     /\ wk = b.wk
     /\ tm = b.tm

InitPS ==
  /\ \E a \in BOOLEAN, sd \in BOOLEAN, n \in RetryAttemptsChoices, mode \in SaveModes,
        snapshot \in InitialSnapshots :
       NewPersistentStore([AutoSave |-> a, SaveOnShutdown |-> sd, RetryAttempts |-> n],
                          mode, snapshot)
  /\ clock = 1
  /\ ret = PSNoCall
  /\ th = [c \in Callers |-> PSIdle]
  /\ nops = 0
  /\ plain = [x \in {} |-> ""]
  /\ muts = [k \in Keys |-> 0]
  /\ maxSeen = [k \in Keys |-> 0]
  /\ swaps = << >>
  /\ ref = ms
  /\ hist = NoHist
  /\ NoFilePersistence

NextPS ==
  \/ \E c \in Callers, key \in PSKeys : PSEnter(c, "Get", key, "live", "", 0)
  \/ \E c \in Callers, key \in PSKeys, val \in PSVals : PSEnter(c, "Set", key, "live", val, 0)
  \/ \E c \in Callers, key \in PSKeys : PSEnter(c, "Delete", key, "live", "", 0)
  \/ \E c \in Callers : PSEnter(c, "Clear", EmptyKey, "live", "", 0)
  \/ \E c \in Callers, key \in PSKeys : PSEnter(c, "CompareAndSwap", key, "live", "v2", 1)
  \/ \E c \in Callers : PSInvoke(c)
  \/ \E c \in Callers : PSTrigger(c)
  \/ \E c \in Callers : PSSend(c)
  \/ \E c \in Callers : CloseEnter(c)
  \/ \E c \in Callers : OnceWait(c)
  \/ \E c \in Callers : CloseMark(c)
  \/ \E c \in Callers : CloseSnapshot(c)
  \/ \E c \in Callers : CloseSave(c)
  \/ \E c \in Callers : CloseChan(c)
  \/ \E c \in Callers : CloseStore(c)
  \/ WorkerReceive
  \/ WorkerCheck
  \/ WorkerSnapshot
  \/ WorkerSave
  \/ TimerFire
  \/ TimerTrigger
  \/ TimerSend
  \/ TimerRecheck
  \/ TimerRearm

SpecPS == InitPS /\ [][NextPS]_vars


(***************************************************************************)
(* One caller drives a PersistentStore and, call by call, a bare           *)
(* MemoryStore with the same inputs and the same clock.                    *)
(***************************************************************************)
SeqCaller == CHOOSE c \in Callers : TRUE
SeqKeys == {KeyA, NullKey}
SeqCtxs == Ctxs
SeqVals == {"v1"}

\* a method other than Close, on both stores
SeqEnter(op, key, ctx, val, exp) ==
  /\ \E refOrder \in Orders(DOMAIN ref.data) :
       LET r == Underlying(op, ref, ctx, key, val, exp, refOrder, clock)
       IN /\ PSEnterCore(SeqCaller, op, key, ctx, val, exp, Out(r))
          /\ ref' = r.ms
  /\ UNCHANGED <<ms, clock, nops, plain, muts, maxSeen, swaps>>
  /\ UNCHANGED <<ps, cfg, wk, tm, pers>>
  /\ UNCHANGED fileVars

\* Close, on both stores
SeqCloseEnter ==
  /\ CloseEnterCore(SeqCaller, Out(MemoryStore_Close(ref)))
  /\ ref' = MemoryStore_Close(ref).ms
  /\ UNCHANGED <<ms, clock, nops, plain, muts, maxSeen, swaps>>
  /\ UNCHANGED <<cfg, wk, tm, pers>>
  /\ UNCHANGED fileVars

NextSeq ==
  \/ \E key \in SeqKeys, ctx \in SeqCtxs : SeqEnter("Get", key, ctx, "", 0)
  \/ \E key \in SeqKeys, ctx \in SeqCtxs, val \in SeqVals : SeqEnter("Set", key, ctx, val, 0)
  \/ \E key \in SeqKeys, ctx \in SeqCtxs : SeqEnter("Delete", key, ctx, "", 0)
  \/ \E ctx \in SeqCtxs : SeqEnter("List", EmptyKey, ctx, "", 0)
  \/ \E ctx \in SeqCtxs : SeqEnter("ListEntries", EmptyKey, ctx, "", 0)
  \/ \E ctx \in SeqCtxs : SeqEnter("Size", EmptyKey, ctx, "", 0)
  \/ \E ctx \in SeqCtxs : SeqEnter("Clear", EmptyKey, ctx, "", 0)
  \/ \E key \in SeqKeys, ctx \in SeqCtxs : SeqEnter("Exists", key, ctx, "", 0)
  \/ \E key \in SeqKeys, ctx \in SeqCtxs : SeqEnter("CompareAndSwap", key, ctx, "v2", 1)
  \/ SeqCloseEnter
  \/ PSInvoke(SeqCaller)
  \/ PSTrigger(SeqCaller)
  \/ PSSend(SeqCaller)
  \/ CloseMark(SeqCaller)
  \/ CloseSnapshot(SeqCaller)
  \/ CloseSave(SeqCaller)
  \/ CloseChan(SeqCaller)
  \/ CloseStore(SeqCaller)
  \/ WorkerReceive
  \/ WorkerCheck
  \/ WorkerSnapshot
  \/ WorkerSave
  \/ TimerFire
  \/ TimerTrigger
  \/ TimerSend
  \/ TimerRecheck
  \/ TimerRearm

SpecSeq == InitPS /\ [][NextSeq]_vars


(***************************************************************************)
(* One caller mutates a PersistentStore with AutoSave that is never        *)
(* closed, often enough to fill the save channel; the scheduler lets the   *)
(* saveProcessor goroutine and a call in progress take their next step.    *)
(***************************************************************************)
MaxSignals == 102

\* What the caller does: up to MaxCalls mutations of any kind, or up to
\* MaxSignals Sets.
Plans == {"mixed", "sets"}
CallsOf(plan) == IF plan = "sets" THEN MaxSignals ELSE MaxCalls

\* a mutating method
FlushEnter(op, key, val, exp, plans) ==
  /\ hist.plan \in plans
  /\ PSEnterBounded(SeqCaller, op, key, "live", val, exp, NoOut, CallsOf(hist.plan))
  /\ UNCHANGED <<ms, clock, nops, plain, muts, maxSeen, swaps>>
  /\ UNCHANGED <<ps, cfg, wk, tm, pers, ref>>
  /\ UNCHANGED fileVars

InitFlush ==
  /\ NewPersistentStore([AutoSave |-> TRUE, SaveOnShutdown |-> FALSE, RetryAttempts |-> 1],
                        "ok", NilSnapshot)
  /\ clock = 1
  /\ ret = PSNoCall
  /\ th = [c \in Callers |-> PSIdle]
  /\ nops = 0
  /\ plain = [x \in {} |-> ""]
  /\ muts = [k \in Keys |-> 0]
  /\ maxSeen = [k \in Keys |-> 0]
  /\ swaps = << >>
  /\ ref = ms
  /\ \E plan \in Plans : hist = [NoHist EXCEPT !.plan = plan]
  /\ NoFilePersistence

\* the goroutine started by `go ps.saveProcessor()`
saveProcessor ==
  \/ WorkerReceive
  \/ WorkerCheck
  \/ WorkerSnapshot
  \/ WorkerSave

\* the goroutine of a caller that is inside a method
CallInProgress ==
  \/ PSInvoke(SeqCaller)
  \/ PSTrigger(SeqCaller)
  \/ PSSend(SeqCaller)

NextFlush ==
  \/ \E key \in PSKeys, val \in PSVals : FlushEnter("Set", key, val, 0, Plans)
  \/ \E key \in PSKeys : FlushEnter("Delete", key, "", 0, {"mixed"})
  \/ FlushEnter("Clear", EmptyKey, "", 0, {"mixed"})
  \/ \E key \in PSKeys : FlushEnter("CompareAndSwap", key, "v2", 1, {"mixed"})
  \/ PSInvoke(SeqCaller)
  \/ PSTrigger(SeqCaller)
  \/ PSSend(SeqCaller)
  \/ WorkerReceive
  \/ WorkerCheck
  \/ WorkerSnapshot
  \/ WorkerSave

SpecFlush ==
  InitFlush /\ [][NextFlush]_vars /\ WF_vars(saveProcessor) /\ WF_vars(CallInProgress)

(***************************************************************************)
(* One caller uses a PersistentStore with AutoSave and SaveOnShutdown while *)
(* the saveProcessor goroutine runs at any pace, or not at all: either up   *)
(* to MaxSignals Sets, or up to MaxCalls calls of any method, Close among   *)
(* them, beside the periodic timer.                                         *)
(***************************************************************************)
InitStall ==
  /\ NewPersistentStore([AutoSave |-> TRUE, SaveOnShutdown |-> TRUE, RetryAttempts |-> 1],
                        "ok", NilSnapshot)
  /\ clock = 1
  /\ ret = PSNoCall
  /\ th = [c \in Callers |-> PSIdle]
  /\ nops = 0
  /\ plain = [x \in {} |-> ""]
  /\ muts = [k \in Keys |-> 0]
  /\ maxSeen = [k \in Keys |-> 0]
  /\ swaps = << >>
  /\ ref = ms
  /\ \E plan \in Plans : hist = [NoHist EXCEPT !.plan = plan]
  /\ NoFilePersistence

\* Close and the timer, beside the calls of the plan "mixed"
StallCloseEnter ==
  /\ hist.plan = "mixed"
  /\ CloseEnter(SeqCaller)

StallTimerFire ==
  /\ hist.plan = "mixed"
  /\ TimerFire

NextStall ==
  \/ \E key \in PSKeys, val \in PSVals : FlushEnter("Set", key, val, 0, Plans)
  \/ \E key \in PSKeys : FlushEnter("Delete", key, "", 0, {"mixed"})
  \/ FlushEnter("Clear", EmptyKey, "", 0, {"mixed"})
  \/ \E key \in PSKeys : FlushEnter("CompareAndSwap", key, "v2", 1, {"mixed"})
  \/ \E key \in PSKeys : FlushEnter("Get", key, "", 0, {"mixed"})
  \/ \E key \in PSKeys : FlushEnter("Exists", key, "", 0, {"mixed"})
  \/ FlushEnter("List", EmptyKey, "", 0, {"mixed"})
  \/ FlushEnter("ListEntries", EmptyKey, "", 0, {"mixed"})
  \/ FlushEnter("Size", EmptyKey, "", 0, {"mixed"})
  \/ PSInvoke(SeqCaller)
  \/ PSTrigger(SeqCaller)
  \/ PSSend(SeqCaller)
  \/ StallCloseEnter
  \/ CloseMark(SeqCaller)
  \/ CloseSnapshot(SeqCaller)
  \/ CloseSave(SeqCaller)
  \/ CloseChan(SeqCaller)
  \/ CloseStore(SeqCaller)
  \/ WorkerReceive
  \/ WorkerCheck
  \/ WorkerSnapshot
  \/ WorkerSave
  \/ StallTimerFire
  \/ TimerTrigger
  \/ TimerSend
  \/ TimerRecheck
  \/ TimerRearm

SpecStall == InitStall /\ [][NextStall]_vars

(***************************************************************************)
(* One caller sets a key and closes a PersistentStore whose RetryAttempts  *)
(* is given as negative, zero (the default applies) or positive, over a    *)
(* persistence whose Save succeeds, fails once or fails always.            *)
(***************************************************************************)
RetryChoices == {-1, 0, 1, 2}

InitRetry ==
  /\ \E n \in RetryChoices, mode \in SaveModes :
       NewPersistentStore([AutoSave |-> TRUE, SaveOnShutdown |-> TRUE, RetryAttempts |-> n],
                          mode, NilSnapshot)
  /\ clock = 1
  /\ ret = PSNoCall
  /\ th = [c \in Callers |-> PSIdle]
  /\ nops = 0
  /\ plain = [x \in {} |-> ""]
  /\ muts = [k \in Keys |-> 0]
  /\ maxSeen = [k \in Keys |-> 0]
  /\ swaps = << >>
  /\ ref = ms
  /\ hist = NoHist
  /\ NoFilePersistence

NextRetry ==
  \/ \E key \in PSKeys, val \in PSVals : PSEnter(SeqCaller, "Set", key, "live", val, 0)
  \/ PSInvoke(SeqCaller)
  \/ PSTrigger(SeqCaller)
  \/ PSSend(SeqCaller)
  \/ CloseEnter(SeqCaller)
  \/ CloseMark(SeqCaller)
  \/ CloseSnapshot(SeqCaller)
  \/ CloseSave(SeqCaller)
  \/ CloseChan(SeqCaller)
  \/ CloseStore(SeqCaller)
  \/ WorkerReceive
  \/ WorkerCheck
  \/ WorkerSnapshot
  \/ WorkerSave
  \/ TimerFire
  \/ TimerTrigger
  \/ TimerSend
  \/ TimerRecheck
  \/ TimerRearm

SpecRetry == InitRetry /\ [][NextRetry]_vars

\* The same store under a scheduler that lets every goroutine that can take a
\* step take it: the saveProcessor goroutine, the caller inside a method or
\* inside Close, and the timer's function once the timer has expired.
CloseInProgress ==
  \/ CloseMark(SeqCaller)
  \/ CloseSnapshot(SeqCaller)
  \/ CloseSave(SeqCaller)
  \/ CloseChan(SeqCaller)
  \/ CloseStore(SeqCaller)

timerCallback ==
  \/ TimerTrigger
  \/ TimerSend
  \/ TimerRecheck
  \/ TimerRearm

SpecLive ==
  /\ InitRetry
  /\ [][NextRetry]_vars
  /\ WF_vars(saveProcessor)
  /\ WF_vars(CallInProgress)
  /\ WF_vars(CloseInProgress)
  /\ WF_vars(timerCallback)

(***************************************************************************)
(* One caller constructs a PersistentStore over a persistence that may     *)
(* hold a snapshot or fail to load, uses it, closes it and constructs a    *)
(* second store over a new MemoryStore and the same persistence.           *)
(***************************************************************************)
MaxBoots == 2
LoadKeys == {KeyA}
LoadVals == {"v2"}
LoadModes == {"ok", "failAlways"}

SnapshotOf(data) ==
  [isNil |-> FALSE, Data |-> data, Version |-> "1.0", Timestamp |-> 1,
   Stats |-> [ZeroStats EXCEPT !.TotalKeys = Cardinality(DOMAIN data)]]

\* no snapshot, an empty one, one with a valid key, one with a valid key and a
\* key that Key.Validate rejects
LoadSnapshots ==
  {NilSnapshot,
   SnapshotOf([x \in {} |-> ""]),
   SnapshotOf(KeyA :> "v1"),
   SnapshotOf(KeyA :> "v1" @@ NullKey :> "v1")}

\* What one construction did, for the properties: the error its Load returned,
\* the number of Load calls, the error it returned, the snapshot the
\* persistence held and the map when the constructor returned.
Booted(h, p, b) ==
  [h EXCEPT !.boots = @ + 1,
            !.bootLoadErr = Load(p).err,
            !.bootErr = b.err,
            !.bootLoads = b.pers.loadCount - p.loadCount,
            !.bootSnapshot = p.snapshot,
            !.bootData = DataOf(b.ms.data)]

InitLoad ==
  /\ \E a \in BOOLEAN, sd \in BOOLEAN, n \in RetryAttemptsChoices, mode \in LoadModes,
        snapshot \in LoadSnapshots, fail \in BOOLEAN :
       LET p == [snapshot |-> snapshot, saveCount |-> 0, loadCount |-> 0,
                 shouldFailLoad |-> fail, mode |-> mode]
           b == NewPersistentStoreOver(NewMemoryStore, p,
                  [AutoSave |-> a, SaveOnShutdown |-> sd, RetryAttempts |-> n], 1)
       IN /\ cfg = b.cfg
          /\ pers = b.pers
          /\ ms = b.ms
          /\ ps = b.ps
          /\ wk = b.wk
          /\ tm = b.tm
          /\ hist = Booted(NoHist, p, b)
  /\ clock = 1
  /\ ret = PSNoCall
  /\ th = [c \in Callers |-> PSIdle]
  /\ nops = 0
  /\ plain = [x \in {} |-> ""]
  /\ muts = [k \in Keys |-> 0]
  /\ maxSeen = [k \in Keys |-> 0]
  /\ swaps = << >>
  /\ ref = NewMemoryStore
  /\ NoFilePersistence

\* After Close has returned and the timer function of the closed store, if one
\* was running, has ended: NewPersistentStore(NewMemoryStore(), persistence,
\* config) with the persistence and the configuration of the closed store.
Reopen ==
  /\ Running
  /\ ps.once = "done"
  /\ \A c \in Callers : th[c].pc = "idle"
  /\ tm.pc = "idle"
  /\ hist.boots < MaxBoots
  /\ LET b == NewPersistentStoreOver(NewMemoryStore, pers, cfg, clock)
     IN /\ cfg' = b.cfg
        /\ pers' = b.pers
        /\ ms' = b.ms
        /\ ps' = b.ps
        /\ wk' = b.wk
        /\ tm' = b.tm
        /\ hist' = [Booted([NoHist EXCEPT !.boots = hist.boots], pers, b)
                      EXCEPT !.calls = hist.calls,
                             !.fires = hist.fires,
                             !.prevData = DataOf(ms.data),
                             !.prevCloseOk = /\ cfg.SaveOnShutdown
                                             /\ hist.finalSaves = 1
                                             /\ ~hist.saveFailed
                                             /\ ret.op = "Close"
                                             /\ ret.out.err = Nil]
  /\ ret' = PSNoCall
  /\ UNCHANGED <<clock, th, nops, plain, muts, maxSeen, swaps, ref>>
  /\ UNCHANGED fileVars

NextLoad ==
  \/ \E key \in LoadKeys : PSEnter(SeqCaller, "Get", key, "live", "", 0)
  \/ \E key \in LoadKeys, val \in LoadVals : PSEnter(SeqCaller, "Set", key, "live", val, 0)
  \/ PSInvoke(SeqCaller)
  \/ PSTrigger(SeqCaller)
  \/ PSSend(SeqCaller)
  \/ CloseEnter(SeqCaller)
  \/ CloseMark(SeqCaller)
  \/ CloseSnapshot(SeqCaller)
  \/ CloseSave(SeqCaller)
  \/ CloseChan(SeqCaller)
  \/ CloseStore(SeqCaller)
  \/ WorkerReceive
  \/ WorkerCheck
  \/ WorkerSnapshot
  \/ WorkerSave
  \/ TimerFire
  \/ TimerTrigger
  \/ TimerSend
  \/ TimerRecheck
  \/ TimerRearm
  \/ Reopen

SpecLoad == InitLoad /\ [][NextLoad]_vars


(***************************************************************************)
(* JSONFilePersistence: goroutines Save and Load through instances that    *)
(* share one path.                                                         *)
(***************************************************************************)
MaxFileCalls == 3

\* ValidateSnapshot: the message of its error, Nil when the snapshot is valid
ValidateSnapshot(snapshot) ==
  IF snapshot.isNil THEN "snapshot is nil"
  ELSE IF snapshot.dataNil THEN "snapshot data is nil"
  ELSE IF snapshot.Version = << >> THEN "snapshot version is empty"
  ELSE IF snapshot.Timestamp <= 0 THEN "snapshot timestamp is invalid"
  ELSE Nil

\* utf8.DecodeRune at s[i]: the width of a valid encoding, 0 for an invalid byte
Continuation(b) == b \in 128..191

RuneWidth(s, i) ==
  LET n == Len(s) - i + 1
      b == s[i]
  IN IF b < 128 THEN 1
     ELSE IF b \in 194..223 /\ n >= 2 /\ Continuation(s[i + 1]) THEN 2
     ELSE IF /\ b \in 224..239 /\ n >= 3
             /\ Continuation(s[i + 1]) /\ Continuation(s[i + 2])
             /\ (b = 224 => s[i + 1] >= 160)
             /\ (b = 237 => s[i + 1] <= 159) THEN 3
     ELSE IF /\ b \in 240..244 /\ n >= 4
             /\ Continuation(s[i + 1]) /\ Continuation(s[i + 2]) /\ Continuation(s[i + 3])
             /\ (b = 240 => s[i + 1] >= 144)
             /\ (b = 244 => s[i + 1] <= 143) THEN 4
     ELSE 0

\* U+FFFD in UTF-8
ReplacementChar == <<239, 191, 189>>

\* encoding/json writes a Go string as a JSON string coerced to valid UTF-8:
\* every invalid byte becomes U+FFFD.
RECURSIVE CoerceFrom(_, _)
CoerceFrom(s, i) ==
  IF i > Len(s) THEN << >>
  ELSE IF RuneWidth(s, i) = 0 THEN ReplacementChar \o CoerceFrom(s, i + 1)
  ELSE SubSeq(s, i, i + RuneWidth(s, i) - 1) \o CoerceFrom(s, i + RuneWidth(s, i))

ToValidUTF8(s) == CoerceFrom(s, 1)

\* the bytewise order in which encoding/json writes the keys of a map
RECURSIVE StrLess(_, _)
StrLess(a, b) ==
  IF Len(b) = 0 THEN FALSE
  ELSE IF Len(a) = 0 THEN TRUE
  ELSE IF Head(a) # Head(b) THEN Head(a) < Head(b)
  ELSE StrLess(Tail(a), Tail(b))

RECURSIVE SortedKeys(_)
SortedKeys(S) ==
  IF S = {} THEN << >>
  ELSE LET k == CHOOSE x \in S : \A y \in S \ {x} : StrLess(x, y)
       IN <<k>> \o SortedKeys(S \ {k})

\* json.MarshalIndent(snapshot): a nil map is null, a map is an object whose
\* members are in key order, every string coerced
Marshal(snapshot) ==
  LET ks == SortedKeys(DOMAIN snapshot.Data)
  IN [kind |-> "object",
      dataNull |-> snapshot.dataNil,
      pairs |-> [n \in DOMAIN ks |-> [k |-> ToValidUTF8(ks[n]),
                                     v |-> ToValidUTF8(snapshot.Data[ks[n]])]],
      stats |-> snapshot.Stats,
      version |-> ToValidUTF8(snapshot.Version),
      timestamp |-> snapshot.Timestamp]

\* json.Unmarshal of an object into a StoreSnapshot: of two members with the
\* same key the later one stays
RECURSIVE PairsToMap(_, _)
PairsToMap(pairs, data) ==
  IF pairs = << >> THEN data
  ELSE PairsToMap(Tail(pairs), MapPut(data, Head(pairs).k, Head(pairs).v))

Unmarshal(doc) ==
  [isNil |-> FALSE, dataNil |-> doc.dataNull, Data |-> PairsToMap(doc.pairs, << >>),
   Stats |-> doc.stats, Version |-> doc.version, Timestamp |-> doc.timestamp]

\* Save before it takes the lock: the nil check and ValidateSnapshot
SavePrecheckNilOnly(snapshot) ==
  IF snapshot.isNil THEN <<"snapshot is nil">> ELSE NoErr

SavePrecheck(snapshot) ==
  IF snapshot.isNil THEN <<"snapshot is nil">>
  ELSE IF ValidateSnapshot(snapshot) # Nil
       THEN <<"persistence save error", ValidateSnapshot(snapshot)>>
       ELSE NoErr

\* Load after os.Stat found the file: os.ReadFile, the empty check,
\* json.Unmarshal and ValidateSnapshot
LoadResult(file) ==
  IF ~file.exists
  THEN [err |-> <<"persistence load error", "failed to read file", "no such file">>,
        snap |-> NilFileSnapshot]
  ELSE IF file.written = 0
  THEN [err |-> <<"persistence load error", "file is empty">>, snap |-> NilFileSnapshot]
  ELSE IF file.written < FileChunks \/ file.text.kind # "object"
  THEN [err |-> <<"persistence load error", "failed to unmarshal snapshot", "invalid JSON">>,
        snap |-> NilFileSnapshot]
  ELSE IF ValidateSnapshot(Unmarshal(file.text)) # Nil
  THEN [err |-> <<"persistence load error", ErrSnapshotCorrupted>>, snap |-> NilFileSnapshot]
  ELSE [err |-> NoErr, snap |-> Unmarshal(file.text)]

\* j.mutex.Lock() and j.mutex.RLock() can be taken
WriterMayEnterDespiteReaders(m) == m.writer = 0

WriterMayEnter(m) == m.writer = 0 /\ m.readers = {}

ReaderMayEnter(m) == m.writer = 0

generateTempFileNameFilePath(t) == TargetPath

generateTempFileName(t) == TempName(t)

FReturned(call) == [call EXCEPT !.pc = "returned"]

Complete(file) == file.exists /\ file.written = FileChunks

\* Save is called: the checks and json.MarshalIndent, which touch nothing shared
SaveCall(t, i, snapshot) ==
  /\ ft[t].pc = "idle"
  /\ fhist.calls < MaxFileCalls
  /\ fhist' = [fhist EXCEPT !.calls = @ + 1]
  /\ LET call == [FIdle EXCEPT !.op = "Save", !.t = t, !.inst = i, !.input = snapshot,
                              !.err = SavePrecheck(snapshot)]
     IN IF call.err # NoErr
        THEN /\ fret' = FReturned(call)
             /\ UNCHANGED ft
        ELSE /\ ft' = [u \in FThreads |->
                         IF u = t THEN [call EXCEPT !.pc = "lock", !.data = Marshal(snapshot)]
                         ELSE IF ft[u].op = "Load" THEN [ft[u] EXCEPT !.clean = FALSE]
                         ELSE ft[u]]
             /\ UNCHANGED fret
  /\ UNCHANGED <<fs, mutex>>
  /\ UNCHANGED <<msVars, psVars>>

\* j.mutex.Lock()
SaveLock(t) ==
  /\ ft[t].pc = "lock"
  /\ WriterMayEnter(mutex[ft[t].inst])
  /\ mutex' = [mutex EXCEPT ![ft[t].inst].writer = t]
  /\ ft' = [ft EXCEPT ![t].pc = "mkdir"]
  /\ UNCHANGED <<fs, fret, fhist>>
  /\ UNCHANGED <<msVars, psVars>>

\* os.MkdirAll(dir), then generateTempFileName
SaveMkdir(t) ==
  /\ ft[t].pc = "mkdir"
  /\ fs' = [fs EXCEPT !.dir = TRUE]
  /\ ft' = [ft EXCEPT ![t].pc = "create", ![t].temp = generateTempFileName(t),
                      ![t].touched = TRUE]
  /\ UNCHANGED <<mutex, fret, fhist>>
  /\ UNCHANGED <<msVars, psVars>>

\* os.WriteFile(tempFile): the file is created, or truncated
SaveCreate(t) ==
  /\ ft[t].pc = "create"
  /\ fs' = [fs EXCEPT !.files[ft[t].temp] =
                        [exists |-> TRUE, text |-> ft[t].data, written |-> 0]]
  /\ ft' = [ft EXCEPT ![t].pc = "write"]
  /\ UNCHANGED <<mutex, fret, fhist>>
  /\ UNCHANGED <<msVars, psVars>>

\* os.WriteFile(tempFile): the bytes reach the file chunk by chunk
SaveWrite(t) ==
  /\ ft[t].pc = "write"
  /\ fs' = [fs EXCEPT !.files[ft[t].temp] =
                        [exists |-> TRUE, text |-> ft[t].data, written |-> ft[t].chunk + 1]]
  /\ ft' = [ft EXCEPT ![t].chunk = @ + 1,
                      ![t].pc = IF ft[t].chunk + 1 = FileChunks THEN "rename" ELSE "write"]
  /\ UNCHANGED <<mutex, fret, fhist>>
  /\ UNCHANGED <<msVars, psVars>>

\* os.Rename(tempFile, j.filePath), atomic; every Load in progress has now
\* been overlapped by this file, and this Save is the last one to take effect
SaveRename(t) ==
  /\ ft[t].pc = "rename"
  /\ LET file == fs.files[ft[t].temp]
     IN /\ fs' = [fs EXCEPT !.files = [p \in Paths |->
                                         IF p = TargetPath THEN file
                                         ELSE IF p = ft[t].temp THEN NoFile
                                         ELSE fs.files[p]]]
        /\ ft' = [u \in FThreads |->
                    IF u = t THEN [ft[t] EXCEPT !.pc = "unlock"]
                    ELSE IF ft[u].op = "Load" THEN [ft[u] EXCEPT !.seen = @ \cup {file}]
                    ELSE ft[u]]
  /\ fhist' = [fhist EXCEPT !.lastSaved = ft[t].input]
  /\ UNCHANGED <<mutex, fret>>
  /\ UNCHANGED <<msVars, psVars>>

\* the deferred calls: the temporary file is removed if it is still there,
\* j.mutex.Unlock(); Save returns nil
SaveReturn(t) ==
  /\ ft[t].pc = "unlock"
  /\ fs' = [fs EXCEPT !.files[ft[t].temp] = NoFile]
  /\ mutex' = [mutex EXCEPT ![ft[t].inst].writer = 0]
  /\ fret' = FReturned(ft[t])
  /\ ft' = [ft EXCEPT ![t] = FIdle]
  /\ UNCHANGED fhist
  /\ UNCHANGED <<msVars, psVars>>

\* Load is called
LoadCall(t, i) ==
  /\ ft[t].pc = "idle"
  /\ fhist.calls < MaxFileCalls
  /\ fhist' = [fhist EXCEPT !.calls = @ + 1]
  /\ ft' = [ft EXCEPT ![t] =
              [FIdle EXCEPT !.op = "Load", !.t = t, !.inst = i, !.pc = "rlock",
                            !.basis = fhist.lastSaved,
                            !.clean = \A u \in FThreads : ft[u].op # "Save",
                            !.seen = {fs.files[TargetPath]},
                            !.validAtStart = LoadResult(fs.files[TargetPath]).err = NoErr]]
  /\ UNCHANGED <<fs, mutex, fret>>
  /\ UNCHANGED <<msVars, psVars>>

\* j.mutex.RLock()
LoadLock(t) ==
  /\ ft[t].pc = "rlock"
  /\ ReaderMayEnter(mutex[ft[t].inst])
  /\ mutex' = [mutex EXCEPT ![ft[t].inst].readers = @ \cup {t}]
  /\ ft' = [ft EXCEPT ![t].pc = "stat"]
  /\ UNCHANGED <<fs, fret, fhist>>
  /\ UNCHANGED <<msVars, psVars>>

\* os.Stat(j.filePath)
LoadStat(t) ==
  /\ ft[t].pc = "stat"
  /\ ft' = [ft EXCEPT ![t] =
              IF fs.files[TargetPath].exists
              THEN [@ EXCEPT !.pc = "read"]
              ELSE [@ EXCEPT !.pc = "runlock", !.statAbsent = TRUE,
                             !.err = <<"persistence load error", ErrNoSnapshotFound>>]]
  /\ UNCHANGED <<fs, mutex, fret, fhist>>
  /\ UNCHANGED <<msVars, psVars>>

\* os.ReadFile(j.filePath), json.Unmarshal, ValidateSnapshot
LoadRead(t) ==
  /\ ft[t].pc = "read"
  /\ ft' = [ft EXCEPT ![t] =
              [@ EXCEPT !.pc = "runlock", !.read = fs.files[TargetPath],
                        !.err = LoadResult(fs.files[TargetPath]).err,
                        !.snap = LoadResult(fs.files[TargetPath]).snap]]
  /\ UNCHANGED <<fs, mutex, fret, fhist>>
  /\ UNCHANGED <<msVars, psVars>>

\* the deferred j.mutex.RUnlock(); Load returns
LoadReturn(t) ==
  /\ ft[t].pc = "runlock"
  /\ mutex' = [mutex EXCEPT ![ft[t].inst].readers = @ \ {t}]
  /\ fret' = FReturned(ft[t])
  /\ ft' = [ft EXCEPT ![t] = FIdle]
  /\ UNCHANGED <<fs, fhist>>
  /\ UNCHANGED <<msVars, psVars>>

\* What Save is called with: nil, two valid snapshots, the second with a value
\* that is not UTF-8, and one snapshot for each way ValidateSnapshot fails.
ValidSnapshot == FileSnapshot(KeyA :> <<49>>, <<49, 46, 48>>, 1)
BinarySnapshot == FileSnapshot(KeyA :> <<255>>, <<49, 46, 48>>, 2)
SaveInputs ==
  {NilFileSnapshot,
   ValidSnapshot,
   BinarySnapshot,
   [FileSnapshot(KeyA :> <<49>>, <<49, 46, 48>>, 1) EXCEPT !.dataNil = TRUE, !.Data = << >>],
   FileSnapshot(KeyA :> <<49>>, << >>, 1),
   FileSnapshot(KeyA :> <<49>>, <<49, 46, 48>>, 0)}

\* What the path holds at the start: nothing, an empty file, bytes that are
\* not JSON, the object {} and a snapshot saved earlier.
WholeFile(text) == [exists |-> TRUE, text |-> text, written |-> FileChunks]
InitialFiles ==
  {NoFile,
   [exists |-> TRUE, text |-> NotJSON, written |-> 0],
   WholeFile(NotJSON),
   WholeFile(Marshal([NilFileSnapshot EXCEPT !.isNil = FALSE])),
   WholeFile(Marshal(ValidSnapshot))}

InitFile ==
  /\ \E file \in InitialFiles, dir \in BOOLEAN :
       /\ file.exists => dir
       /\ fs = [dir |-> dir, files |-> [p \in Paths |-> IF p = TargetPath THEN file ELSE NoFile]]
  /\ mutex = [i \in Insts |-> [writer |-> 0, readers |-> {}]]
  /\ ft = [t \in FThreads |-> FIdle]
  /\ fret = FIdle
  /\ fhist = NoFileHist
  /\ ms = NewMemoryStore
  /\ clock = 1
  /\ ret = NoCall
  /\ th = [c \in Callers |-> Idle]
  /\ nops = 0
  /\ plain = [x \in {} |-> ""]
  /\ muts = [k \in Keys |-> 0]
  /\ maxSeen = [k \in Keys |-> 0]
  /\ swaps = << >>
  /\ NoPersistentStore

NextFile ==
  \/ \E t \in FThreads, i \in Insts, snapshot \in SaveInputs : SaveCall(t, i, snapshot)
  \/ \E t \in FThreads : SaveLock(t)
  \/ \E t \in FThreads : SaveMkdir(t)
  \/ \E t \in FThreads : SaveCreate(t)
  \/ \E t \in FThreads : SaveWrite(t)
  \/ \E t \in FThreads : SaveRename(t)
  \/ \E t \in FThreads : SaveReturn(t)
  \/ \E t \in FThreads, i \in Insts : LoadCall(t, i)
  \/ \E t \in FThreads : LoadLock(t)
  \/ \E t \in FThreads : LoadStat(t)
  \/ \E t \in FThreads : LoadRead(t)
  \/ \E t \in FThreads : LoadReturn(t)

SpecFile == InitFile /\ [][NextFile]_vars


(***************************************************************************)
(* Properties of the PersistentStore under concurrent callers (SpecPS)     *)
(***************************************************************************)
\* C1 (as stated): with SaveOnShutdown and no Save failing, once Close has
\* returned the snapshot held by the persistence is the key -> data mapping the
\* store had when Close was called. Only the behaviours are looked at in which
\* every other call had returned before Close was called and none changed the
\* map after it.
C1_CloseSnapshotIsCurrent ==
  (ps.once = "done" /\ cfg.SaveOnShutdown /\ pers.mode = "ok" /\ ~hist.saveFailed
     /\ ~hist.overlap)
    => (~pers.snapshot.isNil /\ pers.snapshot.Data = hist.closeCallData)

\* C9: whatever Save does, a mutating method that found the store open returns
\* exactly what the underlying store's operation returned, and the map changes
\* only in a caller's mutation, never in a save, a retry or the timer.
C9_SaveFailuresNeverReachCallers ==
  [][/\ (ret' # ret /\ IsMutation(ret'.op) /\ ~ret'.enteredClosed) => ret'.out = ret'.under
     /\ ms'.data # ms.data =>
          \E c \in Callers : /\ th[c].pc = "invoke"
                             /\ IsMutation(th[c].op)
                             /\ th'[c].pc # "invoke"]_vars

\* C9's case: a Set has returned success on an open store whose persistence fails
\* every Save, after a Save has failed, and the value is in the map.
C9_Witness ==
  /\ ret.op = "Set"
  /\ ~ret.enteredClosed
  /\ ret.out.err = Nil
  /\ pers.mode = "failAlways"
  /\ hist.saveFailed
  /\ ret.key \in DOMAIN ms.data
  /\ ms.data[ret.key].Data = ret.val

\* C10: however many Close calls there are, each step of the shutdown sequence
\* (mark closed, final save, close the channel, close the underlying store) runs
\* at most once, has run exactly once when a Close has returned, and a Close
\* call other than the one that ran the sequence returns no error.
C10_ShutdownRunsOnce ==
  /\ hist.marks <= 1
  /\ hist.finalSaves <= 1
  /\ hist.chanCloses <= 1
  /\ hist.storeCloses <= 1
  /\ ret.op = "Close" =>
       /\ hist.marks = 1
       /\ hist.finalSaves = (IF cfg.SaveOnShutdown THEN 1 ELSE 0)
       /\ hist.chanCloses = 1
       /\ hist.storeCloses = 1
       /\ ret.c # hist.runner => ret.out.err = Nil

\* C10's case: a second Close, called before the store was marked closed, has
\* returned after the first one ran the sequence with a failing final save.
C10_Witness ==
  /\ ret.op = "Close"
  /\ ret.c # hist.runner
  /\ ~ret.enteredClosed
  /\ cfg.SaveOnShutdown
  /\ pers.mode = "failAlways"
  /\ hist.finalSaves = 1
  /\ hist.storeCloses = 1

\* C11 (as stated): with SaveOnShutdown, no Save failing and a Set that the
\* persisted snapshot does not yet show, exactly one Save call completes between
\* the first Close call and its return.
C11_ExactlyOneSaveDuringClose ==
  (ps.once = "done" /\ cfg.SaveOnShutdown /\ pers.mode = "ok" /\ ~hist.saveFailed
     /\ hist.unflushedAtClose)
    => pers.saveCount = hist.saveCountAtClose + 1

\* C11 (amended): in that situation at least one Save call completes between the
\* Close call and its return and exactly one of them is Close's own final save;
\* it is the only one when, at the Close call, the worker was waiting on an
\* empty channel and nothing was sent on the channel afterwards.
C11_FinalSaveDuringClose ==
  (ps.once = "done" /\ cfg.SaveOnShutdown /\ pers.mode = "ok" /\ ~hist.saveFailed
     /\ hist.unflushedAtClose)
    => /\ hist.finalSaves = 1
       /\ pers.saveCount >= hist.saveCountAtClose + 1
       /\ (hist.workerIdleAtClose /\ ~hist.sentAfterClose)
            => pers.saveCount = hist.saveCountAtClose + 1

\* C11's case: Close has returned after a Set that no Save had persisted, with
\* the worker idle throughout, and the one Save wrote that Set.
C11_Witness ==
  /\ ps.once = "done"
  /\ cfg.SaveOnShutdown
  /\ pers.mode = "ok"
  /\ ~hist.saveFailed
  /\ hist.unflushedAtClose
  /\ hist.workerIdleAtClose
  /\ ~hist.sentAfterClose
  /\ KeyA \in DOMAIN hist.closeCallData
  /\ pers.saveCount = hist.saveCountAtClose + 1
  /\ pers.snapshot.Data = hist.closeCallData

\* C12: when SaveOnShutdown is set and every attempt of the final save fails, the
\* Close call that ran the shutdown returns the save error, wrapped by
\* saveWithRetry, and by then the channel is closed, the worker has exited and
\* the underlying store is closed.
C12_CloseCompletesAfterFailedSave ==
  (ret.op = "Close" /\ ret.from = "closeWait" /\ cfg.SaveOnShutdown
     /\ pers.mode = "failAlways")
    => /\ ret.out.err = RetryError(cfg.RetryAttempts + 1, SaveError)
       /\ ps.chanClosed
       /\ wk.pc = "exited"
       /\ ms.closed
       /\ hist.chanCloses = 1
       /\ hist.storeCloses = 1

\* C12's case: the Close that ran the shutdown has returned after both attempts
\* of its final save failed, with a key in the map.
C12_Witness ==
  /\ ret.op = "Close"
  /\ ret.from = "closeWait"
  /\ cfg.SaveOnShutdown
  /\ pers.mode = "failAlways"
  /\ pers.saveCount = cfg.RetryAttempts + 1
  /\ KeyA \in DOMAIN ms.data
  /\ ret.out.err # Nil
  /\ ms.closed

\* C21 (as stated): at most one save signal is pending at any time, so that the
\* mutations made while one flush is outstanding are followed by one flush.
C21_AtMostOneSignalPending == ps.chan <= 1

\* What the channel of NewPersistentStore does bound: the signals pending never
\* exceed its capacity, nor the triggers that found the store open.
PendingSignalsBounded ==
  /\ ps.chan <= SaveChannelCap
  /\ ps.chan <= hist.calls + hist.fires

\* Two signals are pending while the worker is in a flush.
TwoSignalsPending ==
  /\ ps.chan = 2
  /\ wk.pc = "save"

\* C25: Close runs its steps in order. The closed flag is set and the timer
\* stopped before the final snapshot is built; the final save, all its attempts
\* included, has finished before the channel is closed; the worker has exited
\* before the underlying store is closed; the underlying store is closed before
\* any Close returns.
C25_CloseStepsInOrder ==
  /\ \A c \in Callers :
       th[c].pc \in {"closeSnapshot", "closeSave", "closeChan", "closeWait"} =>
         ps.closed /\ ps.timer # "armed"
  /\ hist.finalSaves > 0 => ps.closed /\ ps.timer # "armed"
  /\ ps.chanClosed =>
       /\ ps.closed
       /\ \A c \in Callers : th[c].pc \notin {"closeMark", "closeSnapshot", "closeSave"}
       /\ cfg.SaveOnShutdown => hist.finalSaves = 1
       /\ (cfg.SaveOnShutdown /\ pers.mode = "failAlways") =>
            pers.saveCount >= cfg.RetryAttempts + 1
       /\ (cfg.SaveOnShutdown /\ pers.mode # "failAlways") => ~pers.snapshot.isNil
  /\ ms.closed => ps.chanClosed /\ wk.pc = "exited"
  /\ ret.op = "Close" => ms.closed /\ ps.once = "done"

\* C25's case: a Close with SaveOnShutdown has returned after the timer had
\* fired, the first attempt of the final save had failed and a later one had
\* stored the snapshot.
C25_Witness ==
  /\ ret.op = "Close"
  /\ ret.from = "closeWait"
  /\ cfg.SaveOnShutdown
  /\ hist.fires = 1
  /\ hist.saveFailed
  /\ hist.saveCountAtClose = 0
  /\ pers.saveCount = 2
  /\ hist.finalSaves = 1
  /\ ~pers.snapshot.isNil
  /\ ms.closed
  /\ wk.pc = "exited"

\* A flush is in progress from the building of its snapshot to the end of its
\* last Save attempt.
WorkerFlushing == wk.pc = "save"
CloseFlushing == \E c \in Callers : th[c].pc = "closeSave"

\* C26 (as stated): no two flushes of one PersistentStore are in progress at the
\* same time, the worker's flushes and the final save of Close alike.
C26_OneFlushAtATime == ~(WorkerFlushing /\ CloseFlushing)

\* ret.late: the call applied its mutation after the final snapshot of Close had
\* been built.
\* C27 (as stated): with SaveOnShutdown no Set, Delete, Clear or CompareAndSwap
\* applies its change to the map and returns success after the final snapshot
\* has been built: a mutation that races with Close returns ErrStoreClosed or is
\* in the final snapshot.
C27_NoMutationAfterFinalSnapshot ==
  (cfg.SaveOnShutdown /\ IsMutation(ret.op) /\ ret.out.err = Nil) => ~ret.late

\* What the closed flag does give: a mutating call that reads ps.closed after
\* Close has set it returns ErrStoreClosed and is not applied.
MutationAfterMarkRefused ==
  (IsMutation(ret.op) /\ ret.enteredClosed) =>
    /\ ret.out.err = ErrStoreClosed
    /\ ~ret.late

\* A Set that found the store open has returned success, it was applied after
\* the final snapshot was built, and Close has returned with the final snapshot
\* saved without the key.
SetMissedByFinalSnapshot ==
  /\ cfg.SaveOnShutdown
  /\ ret.op = "Set"
  /\ ret.out.err = Nil
  /\ ret.late
  /\ ps.once = "done"
  /\ pers.mode = "ok"
  /\ ~pers.snapshot.isNil
  /\ ret.key \notin DOMAIN pers.snapshot.Data
  /\ ret.key \in DOMAIN ms.data

\* C28 (as stated): no interleaving of Close with a mutating call or with the
\* timer callback makes triggerSave send on the channel after Close has closed
\* it, which panics: every send happens before the close or is skipped.
C28_NoSendOnClosedChannel ==
  /\ \A c \in Callers : th[c].pc # "panicked"
  /\ tm.pc # "panicked"

\* What does hold: the only panic is a send on the channel by a triggerSave that
\* overlapped Close; the channel is closed once.
PanicOnlyBesideClose ==
  ps.panicked => (hist.sentAfterClose /\ ps.chanClosed /\ hist.chanCloses = 1)

\* A Set's triggerSave has sent on the channel that Close had closed.
SetPanicked ==
  \E c \in Callers :
    /\ th[c].pc = "panicked"
    /\ th[c].op = "Set"
    /\ ps.chanClosed
    /\ ps.panicked

\* hist.older names the holder, the worker or the final save of Close, whose
\* snapshot was built from an older map state than the other's; hist.superseded
\* names the holder whose snapshot is older than one already saved;
\* hist.outOfOrder: such a snapshot has been saved.
\* C29 (as stated): no snapshot built from an older map state is saved after a
\* snapshot built from a newer state has been saved, for the worker's flushes
\* and the final save of Close alike.
C29_SnapshotsSavedInOrder == ~hist.outOfOrder

\* What does hold: the worker's own flushes are saved in the order they were
\* built; a snapshot is saved out of order only beside the final save of Close.
OutOfOrderOnlyBesideClose == hist.outOfOrder => hist.finalSaves = 1

\* Close has returned, its final snapshot with the key was saved, and the worker
\* saved its older snapshot without the key after it: the persistence holds the
\* older one.
StaleSnapshotSavedLast ==
  /\ hist.outOfOrder
  /\ ps.once = "done"
  /\ cfg.SaveOnShutdown
  /\ pers.mode = "ok"
  /\ KeyA \in DOMAIN ms.data
  /\ ~pers.snapshot.isNil
  /\ KeyA \notin DOMAIN pers.snapshot.Data

\* C34: without AutoSave no Set, Delete, Clear or CompareAndSwap calls
\* triggerSave. The channel grows only by the send of the timer's function, one
\* signal for each time the timer has expired; the worker is in a flush only
\* after the timer has expired, and a Save is made only by such a flush or by
\* the final save of Close.
C34_WithoutAutoSaveOnlyTimerAndClose ==
  /\ [](~cfg.AutoSave =>
          /\ \A c \in Callers : th[c].pc \notin {"trigger", "send", "panicked"}
          /\ ps.chan <= hist.fires
          /\ wk.pc \in {"check", "snapshot", "save"} => hist.fires > 0
          /\ pers.saveCount > 0 => (hist.fires > 0 \/ hist.finalSaves > 0))
  /\ [][~cfg.AutoSave =>
          /\ ps'.chan > ps.chan =>
               (tm.pc = "send" /\ tm'.pc = "recheck" /\ ps'.chan = ps.chan + 1)
          /\ pers'.saveCount # pers.saveCount =>
               (wk.pc = "save" \/ \E c \in Callers : th[c].pc = "closeSave")
          /\ \A c \in Callers :
               (th[c].pc = "invoke" /\ th'[c] # th[c]) =>
                 (th'[c].pc = "idle" /\ ps' = ps /\ ret'.out.err = ret'.under.err)]_vars

\* C34's case: without AutoSave a Set has returned nil straight from the
\* underlying store, the timer has expired once, and the worker has saved a
\* snapshot with the key while the store is open.
C34_Witness ==
  /\ ~cfg.AutoSave
  /\ ret.op = "Set"
  /\ ret.from = "invoke"
  /\ ret.out.err = Nil
  /\ hist.fires = 1
  /\ ~hist.closeCalled
  /\ pers.saveCount = 1
  /\ ~pers.snapshot.isNil
  /\ ret.key \in DOMAIN pers.snapshot.Data
  /\ ps.chan = 0

\* C35 (as stated): once Close has set ps.closed the timer is not armed again
\* and no signal enters the channel any more, also when the timer's function
\* runs beside Close.
C35_NothingScheduledOrEnqueuedAfterClose ==
  [][ps.closed =>
       /\ ps'.timer = "armed" => ps.timer = "armed"
       /\ ps'.chan <= ps.chan]_vars

\* What does hold: once ps.closed is set the timer is never armed, whatever the
\* timer's function is doing; and a signal that enters the channel after that
\* comes from a triggerSave that had read ps.closed before it was set.
TimerNeverArmedAfterClose ==
  /\ [](ps.closed => ps.timer # "armed")
  /\ [][(ps.closed /\ ps'.chan > ps.chan) =>
          (tm.pc = "send" \/ \E c \in Callers : th[c].pc = "send")]_vars
  /\ [][(ps.closed /\ tm.pc = "trigger") => tm'.pc # "send"]_vars

\* The timer's function has put a signal into the channel of the closed store:
\* no mutation was ever made, the timer expired once, Close has set the flag.
TimerSignalAfterClose ==
  /\ ps.closed
  /\ ~ps.chanClosed
  /\ ps.chan = 1
  /\ hist.fires = 1
  /\ tm.pc = "recheck"
  /\ wk.pc = "recv"
  /\ \A c \in Callers : th[c].op \in {"none", "Close"}
  /\ ret.op = "none"
  /\ \E c \in Callers : th[c].pc \in {"closeSnapshot", "closeSave", "closeChan"}

(***************************************************************************)
(* Properties of the flushes of a store that stays open (SpecFlush)        *)
(***************************************************************************)
\* hist.dirty: a mutation has been applied that no completed Save of a snapshot
\* built after it covers yet.
\* C22: with AutoSave, Save succeeding and the store never closed, every
\* successful Set, Delete, Clear or CompareAndSwap is eventually followed by a
\* completed Save of a snapshot built after the mutation was applied, also when
\* its own signal was dropped on a full channel.
C22_MutationEventuallySaved == hist.dirty ~> ~hist.dirty

\* C22's case: a signal was dropped on the full channel, and every mutation
\* applied so far, the one whose signal was dropped included, is covered by a
\* completed Save of a snapshot built after it.
C22_Witness ==
  /\ hist.dropped
  /\ ~hist.dirty
  /\ pers.saveCount > 0
  /\ ~pers.snapshot.isNil
  /\ pers.snapshot.Data = DataOf(ms.data)

(***************************************************************************)
(* Properties of the callers beside the worker (SpecStall)                 *)
(***************************************************************************)
\* Caller c is inside a method other than Close.
InMethod(c) == th[c].pc \in {"invoke", "trigger", "send"}

\* The next step of caller c inside a method.
MethodStep(c) == PSInvoke(c) \/ PSTrigger(c) \/ PSSend(c)

\* C32: Get, Set, Delete, List, ListEntries, Size, Clear, Exists and
\* CompareAndSwap never call Save or Load and never wait for the worker. Save is
\* called only from the worker's flush and from the final save of Close, Load is
\* not called after construction; no step of a method touches the persistence
\* or the worker; the next step of a caller inside a method can always be
\* taken, wherever the worker is and however many signals the channel holds;
\* and the send on the open channel, full or not, is the method's last step.
C32_CallersNeverTouchPersistence ==
  /\ [][/\ pers'.saveCount # pers.saveCount =>
             (wk.pc = "save" \/ \E c \in Callers : th[c].pc = "closeSave")
        /\ pers'.loadCount = pers.loadCount
        /\ \A c \in Callers :
             ((th[c].pc = "idle" \/ InMethod(c)) /\ th'[c] # th[c] /\ th'[c].op # "Close") =>
               (pers' = pers /\ wk' = wk)
        /\ \A c \in Callers :
             (th[c].pc = "send" /\ th'[c] # th[c] /\ ~ps.chanClosed) =>
               (th'[c].pc = "idle" /\ ret'.c = c /\ ret'.op = th[c].op)]_vars
  /\ [](\A c \in Callers : (Running /\ InMethod(c)) => ENABLED MethodStep(c))

\* The map data reflects the mutation op(key, val, exp) as the last change of
\* its key (of every key, for Clear).
Applied(op, key, val, exp, data) ==
  CASE op = "Set" -> key \in DOMAIN data /\ data[key] = val
    [] op = "Delete" -> key \notin DOMAIN data
    [] op = "Clear" -> DOMAIN data = {}
    [] op = "CompareAndSwap" -> key \in DOMAIN data /\ data[key] = val
    [] OTHER -> FALSE

\* C33: with AutoSave a successful Set, Delete, Clear or CompareAndSwap requests
\* a save, and only after its change is in the map. A mutating call that
\* returns without triggerSave has failed; while a call is in triggerSave the
\* map holds its change; a signal enters the channel from such a call or from
\* the timer; and a snapshot the worker builds is the map as it is then, so it
\* holds the change of the call whose signal it answers.
C33_SaveRequestedAfterChange ==
  /\ [](\A c \in Callers :
         th[c].pc \in {"trigger", "send"} =>
           /\ cfg.AutoSave
           /\ IsMutation(th[c].op)
           /\ th[c].under.err = Nil
           /\ Applied(th[c].op, th[c].key, th[c].val, th[c].exp, DataOf(ms.data)))
  /\ [][/\ \A c \in Callers :
             (th[c].pc = "invoke" /\ IsMutation(th[c].op) /\ th'[c].pc = "idle") =>
               (ret'.out.err # Nil /\ ms'.data = ms.data)
        /\ ps'.chan > ps.chan =>
             (tm.pc = "send" \/ \E c \in Callers : th[c].pc = "send" /\ th'[c].pc = "idle")
        /\ (wk.pc = "snapshot" /\ wk'.pc = "save") =>
             /\ wk'.snap.Data = DataOf(ms.data)
             /\ \A c \in Callers :
                  th[c].pc \in {"trigger", "send"} =>
                    Applied(th[c].op, th[c].key, th[c].val, th[c].exp, wk'.snap.Data)
             /\ (th[SeqCaller].pc = "idle" /\ ret.from = "send") =>
                  Applied(ret.op, ret.key, ret.val, ret.exp, wk'.snap.Data)]_vars

\* C33's case: a Clear of the empty store has sent its signal and returned, and
\* the worker, having received it, holds the snapshot it built: the empty map.
C33_Witness ==
  /\ ret.op = "Clear"
  /\ ret.from = "send"
  /\ ret.out.err = Nil
  /\ hist.calls = 1
  /\ hist.fires = 0
  /\ wk.pc = "save"
  /\ DOMAIN wk.snap.Data = {}
  /\ wk.snap.Stats.TotalKeys = 0

\* C32's case: a Set has returned success while the worker was inside Save and
\* the channel was full, its own signal dropped.
C32_Witness ==
  /\ ret.op = "Set"
  /\ ret.from = "send"
  /\ ret.out.err = Nil
  /\ hist.dropped
  /\ ps.chan = SaveChannelCap
  /\ wk.pc = "save"
  /\ th[SeqCaller].pc = "idle"

(***************************************************************************)
(* Properties of saveWithRetry (SpecRetry)                                 *)
(***************************************************************************)
\* One attempt of a flush whose loop variable is attempt, taken in this step:
\* Save is called once; after a success the flush ends; after a failure it
\* goes on to the next attempt, unless this was attempt RetryAttempts.
AttemptStep(attempt, ended, next) ==
  /\ pers'.saveCount = pers.saveCount + 1
  /\ attempt <= cfg.RetryAttempts
  /\ SaveErr(pers) = Nil => ended
  /\ (SaveErr(pers) # Nil /\ attempt < cfg.RetryAttempts) => (~ended /\ next = attempt + 1)
  /\ (SaveErr(pers) # Nil /\ attempt = cfg.RetryAttempts) => ended

\* The Save calls made between the Close call and its return when no flush of
\* the worker falls into that span.
SavesOfFinalFlush ==
  IF ~LoopEntered THEN 0
  ELSE IF pers.mode = "failAlways" THEN cfg.RetryAttempts + 1
  ELSE IF hist.saveFailed THEN 2
  ELSE 1

\* C30: one flush calls Save at most RetryAttempts+1 times, RetryAttempts being
\* the value after the defaults: it stops at the first attempt that succeeds,
\* and when every attempt fails it makes exactly RetryAttempts+1 attempts and
\* then reports failure (Close returns the wrapped error).
C30_BoundedRetry ==
  /\ [][/\ (wk.pc = "save" /\ wk' # wk) =>
             AttemptStep(wk.attempt, wk'.pc = "recv", wk'.attempt)
        /\ \A c \in Callers :
             (th[c].pc = "closeSave" /\ th'[c] # th[c]) =>
               /\ AttemptStep(th[c].attempt, th'[c].pc = "closeChan", th'[c].attempt)
               /\ th'[c].pc = "closeChan" =>
                    th'[c].closeErr =
                      (IF SaveErr(pers) = Nil THEN Nil
                       ELSE RetryError(cfg.RetryAttempts + 1, SaveError))
        /\ pers'.saveCount # pers.saveCount =>
             (wk.pc = "save" \/ \E c \in Callers : th[c].pc = "closeSave")]_vars
  /\ []((ps.once = "done" /\ hist.workerIdleAtClose /\ ~hist.sentAfterClose
           /\ hist.saveCountAtClose = 0) =>
          pers.saveCount = SavesOfFinalFlush)

\* C30's case: RetryAttempts was given as 0, so 3 applies; every Save fails; the
\* final flush of Close has made 4 attempts and Close has returned the error.
C30_Witness ==
  /\ cfg.RetryAttempts = DefaultRetryAttempts
  /\ pers.mode = "failAlways"
  /\ ret.op = "Close"
  /\ ret.from = "closeWait"
  /\ hist.workerIdleAtClose
  /\ ~hist.sentAfterClose
  /\ pers.saveCount = DefaultRetryAttempts + 1
  /\ ret.out.err = RetryError(DefaultRetryAttempts + 1, SaveError)

(***************************************************************************)
(* Properties of the goroutines under a fair scheduler (SpecLive)          *)
(***************************************************************************)
\* The Save calls a run can make: one flush per signal and the final one.
SaveCounts == 0..((MaxCalls + MaxFires + 1) * (DefaultRetryAttempts + 1))

\* Every Save fails and the store is open, so every Save call so far was the
\* worker's: it has been through a whole flush, RetryAttempts+1 failed attempts.
WorkerExhausted ==
  /\ pers.mode = "failAlways"
  /\ ~ps.closed
  /\ LoopEntered
  /\ pers.saveCount >= cfg.RetryAttempts + 1

\* C31: a flush that has exhausted its retries does not end the worker. The
\* saveProcessor goroutine returns only when the store has been closed; and a
\* signal that is in the channel of the open store after such a flush is
\* received and followed by a new snapshot and a new Save call, unless the store
\* is closed first.
C31_WorkerSurvivesFailedFlush ==
  /\ [](wk.pc = "exited" => ps.closed)
  /\ [][(wk.pc = "save" /\ wk'.pc = "recv") => (ps' = ps /\ wk'.snap.isNil)]_vars
  /\ \A n \in SaveCounts :
       (WorkerExhausted /\ ps.chan > 0 /\ pers.saveCount = n)
         ~> (ps.closed \/ pers.saveCount > n)

\* C31's case: every Save fails; a first flush made RetryAttempts+1 attempts,
\* a signal sent after it was received and a second flush has made its
\* attempts as well; the store is open and the worker waits for the next signal.
C31_Witness ==
  /\ WorkerExhausted
  /\ pers.saveCount = 2 * (cfg.RetryAttempts + 1)
  /\ wk.pc = "recv"
  /\ ps.chan = 0
  /\ hist.saveFailed
  /\ pers.snapshot.isNil

(***************************************************************************)
(* PersistentStore against a bare MemoryStore (SpecSeq)                    *)
(***************************************************************************)
KeyedOps == {"Get", "Set", "Delete", "Exists", "CompareAndSwap"}

\* Lists are compared as collections: the order of a Go map iteration is not
\* part of a result.
SameList(a, b) ==
  /\ Len(a) = Len(b)
  /\ {a[i] : i \in DOMAIN a} = {b[i] : i \in DOMAIN b}

SameOut(a, b) ==
  /\ a.err = b.err
  /\ a.value = b.value
  /\ a.n = b.n
  /\ a.ok = b.ok
  /\ SameList(a.list, b.list)

ClosedStoreError(op, key, ctx) ==
  IF op \in KeyedOps /\ Validate(key) # Nil THEN ErrInvalidKey
  ELSE IF ctx = "expired" THEN DeadlineExceeded
  ELSE IF ctx = "cancelled" THEN Canceled
  ELSE ErrStoreClosed

\* C13 (as stated): once Close has returned, every Store method other than Close
\* returns ErrStoreClosed on the PersistentStore and on the MemoryStore, neither
\* map nor the persisted snapshot changes, and a further MemoryStore.Close
\* returns nil.
C13_ClosedIsAbsorbing ==
  [][ps.once = "done" =>
       /\ ms'.data = ms.data
       /\ ref'.data = ref.data
       /\ pers'.snapshot = pers.snapshot
       /\ (ret' # ret /\ ret'.op # "Close") =>
            /\ ret'.out.err = ErrStoreClosed
            /\ ret'.refOut.err = ErrStoreClosed
       /\ (ret' # ret /\ ret'.op = "Close") => ret'.refOut.err = Nil]_vars

\* What the code does keep after Close has returned: neither map nor the
\* persisted snapshot changes, and both stores stay closed. Every
\* PersistentStore method other than Close returns ErrStoreClosed; a MemoryStore
\* method returns ErrStoreClosed when its key is valid and its context live,
\* ErrInvalidKey for an invalid key and otherwise the context's error. A
\* further Close of the MemoryStore returns nil.
ClosedIsAbsorbingAfterChecks ==
  [][ps.once = "done" =>
       /\ ms'.data = ms.data
       /\ ref'.data = ref.data
       /\ pers'.snapshot = pers.snapshot
       /\ ms'.closed /\ ref'.closed /\ ps'.closed
       /\ (ret' # ret /\ ret'.op # "Close") =>
            /\ ret'.out.err = ErrStoreClosed
            /\ ret'.refOut.err = ClosedStoreError(ret'.op, ret'.key, ret'.ctx)
       /\ (ret' # ret /\ ret'.op = "Close") => ret'.refOut.err = Nil]_vars

\* A Set with a valid key and a live context, made after Close had returned and
\* saved its final snapshot, has returned ErrStoreClosed on both stores and its
\* key is in neither map nor in the snapshot.
ClosedSetRefused ==
  /\ ps.once = "done"
  /\ ret.op = "Set"
  /\ ret.enteredClosed
  /\ Validate(ret.key) = Nil
  /\ ret.ctx = "live"
  /\ ret.out.err = ErrStoreClosed
  /\ ret.refOut.err = ErrStoreClosed
  /\ ret.key \notin DOMAIN ms.data
  /\ ret.key \notin DOMAIN ref.data
  /\ ~pers.snapshot.isNil
  /\ ret.key \notin DOMAIN pers.snapshot.Data

\* A step of a call that was made with an expired or cancelled context.
DeadContextStep ==
  \E c \in Callers :
    \/ th'[c] # th[c] /\ th'[c].ctx # "live"
    \/ th'[c] # th[c] /\ th[c].ctx # "live"
    \/ ret' # ret /\ ret'.c = c /\ ret'.ctx # "live"

\* The maps with their versions, the request statistics and the save channel
\* stay as they are.
NoSideEffect ==
  /\ ms'.data = ms.data
  /\ ms'.stats = ms.stats
  /\ ref'.data = ref.data
  /\ ref'.stats = ref.stats
  /\ ps'.chan = ps.chan

ValidData(data) == [k \in {x \in DOMAIN data : Validate(x) = Nil} |-> data[k]]

\* C14: when the constructor's Load reports no snapshot or fails, the
\* constructor has made exactly one Load call and returned no error, the map
\* is empty when it returns, and a Set on the open store returns nil and puts
\* its value in the map.
C14_ConstructionSurvivesLoadFailure ==
  hist.bootLoadErr # Nil =>
    /\ hist.bootErr = Nil
    /\ hist.bootLoads = 1
    /\ hist.bootData = [x \in {} |-> ""]
    /\ (ret.op = "Set" /\ ~ret.enteredClosed) =>
         /\ ret.out.err = Nil
         /\ ret.key \in DOMAIN ms.data
         /\ ms.data[ret.key].Data = ret.val

\* C14's case: the persistence held a snapshot with a key, the constructor's
\* Load failed, and a Set on the store it returned has returned nil.
C14_Witness ==
  /\ hist.bootLoadErr = LoadError
  /\ KeyA \in DOMAIN hist.bootSnapshot.Data
  /\ hist.bootData = [x \in {} |-> ""]
  /\ ret.op = "Set"
  /\ ret.out.err = Nil
  /\ KeyA \in DOMAIN ms.data

\* C14's other case: the persistence held no snapshot.
ConstructedWithoutSnapshot ==
  /\ hist.bootLoadErr = ErrNoSnapshotFound
  /\ ret.op = "Set"
  /\ ret.out.err = Nil

\* C15 (as stated): when the constructor's Load succeeds, the map holds on its
\* return exactly the valid keys of the snapshot with the snapshot's data; and
\* a store constructed after a Close that made its final save and returned nil,
\* no Save having failed, holds on the constructor's return the mapping the
\* closed store held, unless its Load failed.
C15_ReloadRestoresMapping ==
  /\ hist.bootLoadErr = Nil => hist.bootData = ValidData(hist.bootSnapshot.Data)
  /\ (hist.boots > 1 /\ hist.prevCloseOk /\ hist.bootLoadErr # LoadError) =>
       hist.bootData = hist.prevData

\* The first half of C15 alone.
LoadRestoresValidKeys ==
  hist.bootLoadErr = Nil => hist.bootData = ValidData(hist.bootSnapshot.Data)

\* a snapshot with a valid and an invalid key has been loaded
LoadedSkippingInvalidKey ==
  /\ hist.bootLoadErr = Nil
  /\ NullKey \in DOMAIN hist.bootSnapshot.Data
  /\ DOMAIN hist.bootData = {KeyA}

(***************************************************************************)
(* Properties of JSONFilePersistence (SpecFile)                            *)
(***************************************************************************)
\* a Load that began when every Save called had returned, the last rename being
\* that of Save(basis), and that no Save overlapped
CleanLoadReturned ==
  fret.op = "Load" /\ fret.clean /\ ~fret.basis.isNil

\* C16 (as stated): a Load that follows a successful Save(S) with no Save in
\* between, through the same or another instance on the path, returns no error
\* and a snapshot with the Data, Version and Timestamp of S.
C16_RoundTrip ==
  CleanLoadReturned =>
    /\ fret.err = NoErr
    /\ fret.snap.Data = fret.basis.Data
    /\ fret.snap.Version = fret.basis.Version
    /\ fret.snap.Timestamp = fret.basis.Timestamp

\* What the code does keep: such a Load returns S as encoding/json writes and
\* reads it, every string coerced to valid UTF-8.
RoundTripUpToCoercion ==
  CleanLoadReturned =>
    /\ fret.err = NoErr
    /\ fret.snap = Unmarshal(Marshal(fret.basis))

\* a snapshot whose strings are UTF-8 has come back as it was saved, through
\* another instance than the one that saved it
RoundTripOfText ==
  /\ CleanLoadReturned
  /\ fret.basis = ValidSnapshot
  /\ fret.snap = ValidSnapshot

\* C17: a Load that began when the path held a valid snapshot returns no error
\* and the snapshot of one complete file: the file the path held when the Load
\* began or a file that a Save renamed onto the path while the Load was in
\* progress.
C17_LoadSeesCompleteFile ==
  (fret.op = "Load" /\ fret.validAtStart) =>
    /\ fret.err = NoErr
    /\ \E file \in fret.seen :
         /\ Complete(file)
         /\ fret.read = file
         /\ fret.snap = LoadResult(file).snap
         /\ ~fret.snap.isNil

\* C17's case: a Save renamed its file onto the path while the Load was in
\* progress, through another instance, and the Load returned that file's
\* snapshot.
C17_Witness ==
  /\ fret.op = "Load"
  /\ fret.validAtStart
  /\ Cardinality(fret.seen) = 2
  /\ fret.err = NoErr
  /\ fret.snap = Unmarshal(Marshal(BinarySnapshot))
  /\ \E t \in FThreads : ft[t].op = "Save" /\ ft[t].pc = "unlock" /\ ft[t].inst # fret.inst

\* between the creation of the temporary file and the end of the rename
InSection(t) == ft[t].op = "Save" /\ ft[t].pc \in {"create", "write", "rename"}

\* holding the read lock
Reading(t) == ft[t].op = "Load" /\ ft[t].pc \in {"stat", "read", "runlock"}

\* C18 (as stated): on the one path at most one Save is between the creation of
\* its temporary file and its rename, and no Load holds a read lock meanwhile.
C18_OneSaveOnPath ==
  \A t \in FThreads : \A u \in FThreads \ {t} :
    InSection(t) => (~InSection(u) /\ ~Reading(u))

\* C18 (amended): at most one Save made through a given instance is between the
\* creation of its temporary file and its rename, and meanwhile no Load made
\* through that instance holds the read lock.
C18_OneSavePerInstance ==
  \A t \in FThreads : \A u \in FThreads \ {t} :
    (InSection(t) /\ ft[u].inst = ft[t].inst) => (~InSection(u) /\ ~Reading(u))

\* C18's case: a Save is in its section while a Load called on the same
\* instance waits for the read lock.
C18_Witness ==
  \E t \in FThreads : \E u \in FThreads \ {t} :
    /\ InSection(t)
    /\ ft[t].pc = "write"
    /\ ft[u].op = "Load"
    /\ ft[u].pc = "rlock"
    /\ ft[u].inst = ft[t].inst

\* C19: a Save called with nil or with a snapshot that ValidateSnapshot rejects
\* returns an error, plain for nil and wrapped otherwise, and the step in which
\* it returns leaves the directory and every file as they were; the call made
\* no filesystem call.
C19_InvalidSaveTouchesNothing ==
  [][(fret' # fret /\ fret'.op = "Save"
        /\ (fret'.input.isNil \/ ValidateSnapshot(fret'.input) # Nil)) =>
       /\ fret'.err = (IF fret'.input.isNil THEN <<"snapshot is nil">>
                       ELSE <<"persistence save error", ValidateSnapshot(fret'.input)>>)
       /\ ~fret'.touched
       /\ fs' = fs]_vars

\* C19's case: after a successful Save, a Save of a snapshot with an empty
\* version has returned its error and the path still holds the saved file.
C19_Witness ==
  /\ fret.op = "Save"
  /\ ~fret.input.isNil
  /\ fret.input.Version = << >>
  /\ fret.err = <<"persistence save error", "snapshot version is empty">>
  /\ fhist.lastSaved = BinarySnapshot
  /\ fs.files[TargetPath] = WholeFile(Marshal(BinarySnapshot))
  /\ \A t \in FThreads : fs.files[TempName(t)] = NoFile

\* the file a Load read is not a snapshot: it is empty, cut short, not JSON, or
\* an object that ValidateSnapshot rejects
NotASnapshot(file) ==
  \/ file.written < FileChunks
  \/ file.text.kind # "object"
  \/ ValidateSnapshot(Unmarshal(file.text)) # Nil

\* C20 (as stated): Load returns ErrNoSnapshotFound when the file is absent and
\* ErrSnapshotCorrupted when what it read fails deserialization or validation,
\* and a nil snapshot with every error.
C20_LoadErrors ==
  fret.op = "Load" =>
    /\ fret.statAbsent => Is(fret.err, ErrNoSnapshotFound)
    /\ (fret.read.exists /\ NotASnapshot(fret.read)) => Is(fret.err, ErrSnapshotCorrupted)
    /\ fret.err # NoErr => fret.snap.isNil

\* What the code does keep: ErrNoSnapshotFound for an absent file,
\* ErrSnapshotCorrupted for an object that ValidateSnapshot rejects, another
\* error for an empty file and for bytes that are not JSON, and a nil snapshot
\* with every error.
LoadErrorsAsCoded ==
  fret.op = "Load" =>
    /\ fret.statAbsent => Is(fret.err, ErrNoSnapshotFound)
    /\ (fret.read.exists /\ NotASnapshot(fret.read)) =>
         /\ fret.err # NoErr
         /\ Is(fret.err, ErrSnapshotCorrupted) <=>
              (Complete(fret.read) /\ fret.read.text.kind = "object")
    /\ fret.err # NoErr => fret.snap.isNil
    /\ fret.err = NoErr => (~fret.statAbsent /\ ~NotASnapshot(fret.read))

(***************************************************************************)
(* The MemoryStore lock by lock (specification SpecLock): goroutines       *)
(* inside its methods, each holding or waiting for ms.mutex or             *)
(* ms.statsMutex. A lock is held by the goroutines that are between its    *)
(* Lock and its Unlock, so the state of both locks is read off the         *)
(* goroutines' positions. A List or ListEntries visits one key per step.   *)
(***************************************************************************)
LockCtxs == {"live", "cancelled"}
WriterOps == {"Set", "Delete", "Clear", "CompareAndSwap", "Close"}
ReaderOps == {"Get", "Exists", "List", "ListEntries", "Size"}

\* A goroutine that is in no method. views is history: the contents the map
\* has had since the call started.
LIdle ==
  [pc |-> "idle", op |-> "none", key |-> EmptyKey, ctx |-> "live", val |-> "", exp |-> 0,
   list |-> << >>, value |-> ZeroValue, views |-> {}]

\* The call that returned last: who called what, what came back, and the
\* contents the map had between the call and the return.
LReturned(c, t, err, value, list, n, ok, stats) ==
  [c |-> c, op |-> t.op, key |-> t.key, ctx |-> t.ctx, val |-> t.val, exp |-> t.exp,
   err |-> err, value |-> value,
   keys |-> IF t.op = "List" THEN [i \in DOMAIN list |-> list[i].Key] ELSE << >>,
   list |-> IF t.op = "List" THEN << >> ELSE list,
   n |-> n, ok |-> ok, stats |-> stats, views |-> t.views, from |-> t.pc]

LNoCall == LReturned(0, LIdle, Nil, ZeroValue, << >>, 0, FALSE, ZeroStats)

\* The positions between ms.mutex.Lock / RLock and the deferred Unlock / RUnlock.
HeldPcs == {"stat", "apply", "count", "range", "finish"}
MapWriters == {c \in Callers : th[c].pc \in HeldPcs /\ th[c].op \in WriterOps}
MapReaders == {c \in Callers : th[c].pc \in HeldPcs /\ th[c].op \in ReaderOps}
WritersWaiting == {c \in Callers : th[c].pc = "lock" /\ th[c].op \in WriterOps}
\* The positions between ms.statsMutex.RLock and its RUnlock (GetStats);
\* incrementStat and updateKeyCount lock, write and unlock in one step.
StatsReaders == {c \in Callers : th[c].pc = "statsRead"}

\* sync.RWMutex: RLock waits while a writer holds the lock or waits for it.
RLockReady == MapWriters = {} /\ WritersWaiting = {}

\* sync.RWMutex: Lock waits until no writer and no reader holds the lock.
LockReadyDespiteReaders == MapWriters = {}

LockReady == MapWriters = {} /\ MapReaders = {}

\* ms.statsMutex.Lock() in incrementStat and updateKeyCount
StatsLockReady == StatsReaders = {}

\* GetStats copies the statistics under ms.statsMutex alone: it takes no other
\* lock while it holds it.
StatsCopyNeedsMapLock == MapWriters = {}

StatsCopyReady == TRUE

StatOf(op) ==
  CASE op = "Get" -> "StatGet"
    [] op = "Set" -> "StatSet"
    [] op = "Delete" -> "StatDelete"

\* Where a method goes once it holds ms.mutex and has found the store open.
UnderLock(op) ==
  CASE op \in {"Get", "Set", "Delete"} -> "stat"
    [] op \in {"Exists", "Size"} -> "finish"
    [] op \in {"List", "ListEntries"} -> "range"
    [] op \in {"Clear", "CompareAndSwap", "Close"} -> "apply"

\* History: every goroutine inside a call notes the map's new content.
Noted(t, data) == IF t.pc = "idle" THEN t ELSE [t EXCEPT !.views = @ \cup {data}]

\* Caller c returns: its deferred unlock, the values handed back.
LReturn(c, t, err, value, list, n, ok, stats) ==
  /\ ret' = LReturned(c, t, err, value, list, n, ok, stats)
  /\ th' = [d \in Callers |-> IF d = c THEN LIdle ELSE Noted(th[d], ms'.data)]

\* Caller c goes on inside its method.
LGoOn(c, t) ==
  /\ th' = [d \in Callers |-> IF d = c THEN Noted(t, ms'.data) ELSE Noted(th[d], ms'.data)]
  /\ UNCHANGED ret

\* A method is called: key validation and the ctx.Done() poll, before any lock.
LockCall(c, op, key, ctx, val, exp) ==
  /\ th[c].pc = "idle"
  /\ nops < MaxOps
  /\ nops' = nops + 1
  /\ ms' = ms
  /\ LET t == [LIdle EXCEPT !.op = op, !.key = key, !.ctx = ctx, !.val = val, !.exp = exp,
                           !.views = {ms.data}]
         pre == IF op \in {"Close", "GetStats"} THEN Nil
                ELSE IF op \in {"Get", "Set", "Delete", "Exists", "CompareAndSwap"}
                        /\ Validate(key) # Nil
                     THEN Validate(key)
                ELSE CtxErr(ctx)
     IN IF pre # Nil
        THEN LReturn(c, t, pre, ZeroValue, << >>, 0, FALSE, ZeroStats)
        ELSE LGoOn(c, [t EXCEPT !.pc = IF op = "GetStats" THEN "statsLock" ELSE "lock"])
  /\ UNCHANGED <<clock, plain, muts, maxSeen, swaps>>
  /\ UNCHANGED psVars
  /\ UNCHANGED fileVars

\* ms.mutex.Lock() or RLock() returns; the method checks ms.closed.
LockAcquire(c) ==
  /\ th[c].pc = "lock"
  /\ IF th[c].op \in WriterOps THEN LockReady ELSE RLockReady
  /\ ms' = ms
  /\ IF ms.closed /\ th[c].op # "Close"
     THEN LReturn(c, th[c], ErrStoreClosed, ZeroValue, << >>, 0, FALSE, ZeroStats)
     ELSE LGoOn(c, [th[c] EXCEPT !.pc = UnderLock(th[c].op)])
  /\ UNCHANGED <<clock, nops, plain, muts, maxSeen, swaps>>
  /\ UNCHANGED psVars
  /\ UNCHANGED fileVars

\* ms.incrementStat(...), under ms.statsMutex
LockStat(c) ==
  /\ th[c].pc = "stat"
  /\ StatsLockReady
  /\ ms' = [ms EXCEPT !.stats = incrementStat(@, StatOf(th[c].op))]
  /\ LGoOn(c, [th[c] EXCEPT !.pc = IF th[c].op = "Get" THEN "finish" ELSE "apply"])
  /\ UNCHANGED <<clock, nops, plain, muts, maxSeen, swaps>>
  /\ UNCHANGED psVars
  /\ UNCHANGED fileVars

\* The write of a mutating method to ms.data (to ms.closed, for Close).
\* CompareAndSwap and Close return here, Delete of an absent key too.
LockApply(c) ==
  /\ th[c].pc = "apply"
  /\ LET t == th[c]
         exists == t.key \in DOMAIN ms.data
         existingValue == IF exists THEN ms.data[t.key] ELSE ZeroValue
     IN CASE t.op = "Set" ->
               /\ ms' = [ms EXCEPT !.data =
                           MapPut(@, t.key, SetNewValue(exists, existingValue, t.val, clock))]
               /\ LGoOn(c, [t EXCEPT !.pc = "count"])
          [] t.op = "Delete" ->
               IF ~exists
               THEN /\ ms' = ms
                    /\ LReturn(c, t, ErrKeyNotFound, ZeroValue, << >>, 0, FALSE, ZeroStats)
               ELSE /\ ms' = [ms EXCEPT !.data = MapDel(@, t.key)]
                    /\ LGoOn(c, [t EXCEPT !.pc = "count", !.value = existingValue])
          [] t.op = "Clear" ->
               /\ ms' = [ms EXCEPT !.data = EmptyMap]
               /\ LGoOn(c, [t EXCEPT !.pc = "count"])
          [] t.op = "CompareAndSwap" ->
               LET r == MemoryStore_CompareAndSwap(ms, "live", t.key, t.exp, t.val, clock)
               IN /\ ms' = r.ms
                  /\ LReturn(c, t, r.err, r.value, << >>, 0, FALSE, ZeroStats)
          [] t.op = "Close" ->
               /\ ms' = MemoryStore_Close(ms).ms
               /\ LReturn(c, t, Nil, ZeroValue, << >>, 0, FALSE, ZeroStats)
  /\ UNCHANGED <<clock, nops, plain, muts, maxSeen, swaps>>
  /\ UNCHANGED psVars
  /\ UNCHANGED fileVars

\* ms.updateKeyCount(), under ms.statsMutex; then Set, Delete and Clear return.
LockCount(c) ==
  /\ th[c].pc = "count"
  /\ StatsLockReady
  /\ ms' = [ms EXCEPT !.stats = updateKeyCount(@, ms.data)]
  /\ LReturn(c, th[c], Nil, th[c].value, << >>, 0, FALSE, ZeroStats)
  /\ UNCHANGED <<clock, nops, plain, muts, maxSeen, swaps>>
  /\ UNCHANGED psVars
  /\ UNCHANGED fileVars

\* for key, value := range ms.data: the next key not visited yet is appended;
\* when none is left List returns the keys (LReturned keeps them of the
\* entries), ListEntries the entries.
LockRange(c) ==
  /\ th[c].pc = "range"
  /\ ms' = ms
  /\ LET t == th[c]
         visited == {t.list[i].Key : i \in DOMAIN t.list}
     IN IF DOMAIN ms.data \subseteq visited
        THEN LReturn(c, t, Nil, ZeroValue, t.list, 0, FALSE, ZeroStats)
        ELSE \E k \in DOMAIN ms.data \ visited :
               LGoOn(c, [t EXCEPT !.list = Append(@, [Key |-> k, Value |-> ms.data[k]])])
  /\ UNCHANGED <<clock, nops, plain, muts, maxSeen, swaps>>
  /\ UNCHANGED psVars
  /\ UNCHANGED fileVars

\* The read of Get, Exists and Size from ms.data, and their return.
LockFinish(c) ==
  /\ th[c].pc = "finish"
  /\ ms' = ms
  /\ LET t == th[c]
     IN CASE t.op = "Get" ->
               IF t.key \notin DOMAIN ms.data
               THEN LReturn(c, t, ErrKeyNotFound, ZeroValue, << >>, 0, FALSE, ZeroStats)
               ELSE LReturn(c, t, Nil, ms.data[t.key], << >>, 0, FALSE, ZeroStats)
          [] t.op = "Exists" ->
               LReturn(c, t, Nil, ZeroValue, << >>, 0, t.key \in DOMAIN ms.data, ZeroStats)
          [] t.op = "Size" ->
               LReturn(c, t, Nil, ZeroValue, << >>, Cardinality(DOMAIN ms.data), FALSE,
                       ZeroStats)
  /\ UNCHANGED <<clock, nops, plain, muts, maxSeen, swaps>>
  /\ UNCHANGED psVars
  /\ UNCHANGED fileVars

\* GetStats: ms.statsMutex.RLock() returns (no goroutine keeps the write lock
\* across a step).
LockStatsAcquire(c) ==
  /\ th[c].pc = "statsLock"
  /\ ms' = ms
  /\ LGoOn(c, [th[c] EXCEPT !.pc = "statsRead"])
  /\ UNCHANGED <<clock, nops, plain, muts, maxSeen, swaps>>
  /\ UNCHANGED psVars
  /\ UNCHANGED fileVars

\* GetStats: the copy of ms.stats, and the return
LockStatsCopy(c) ==
  /\ th[c].pc = "statsRead"
  /\ StatsCopyReady
  /\ ms' = ms
  /\ LReturn(c, th[c], Nil, ZeroValue, << >>, 0, FALSE, ms.stats)
  /\ UNCHANGED <<clock, nops, plain, muts, maxSeen, swaps>>
  /\ UNCHANGED psVars
  /\ UNCHANGED fileVars

\* The next step of goroutine c inside a method.
LockStep(c) ==
  \/ LockAcquire(c)
  \/ LockStat(c)
  \/ LockApply(c)
  \/ LockCount(c)
  \/ LockRange(c)
  \/ LockFinish(c)
  \/ LockStatsAcquire(c)
  \/ LockStatsCopy(c)

\* TestMemoryStore_DeadlockDetection: "Initialize keys", then the goroutines start
RECURSIVE InitialKeys(_, _)
InitialKeys(s, todo) ==
  IF todo = {} THEN s
  ELSE LET k == CHOOSE x \in todo : TRUE
       IN InitialKeys(MemoryStore_Set(s, "live", k, "v0", 1).ms, todo \ {k})

InitLock ==
  /\ ms = InitialKeys(NewMemoryStore, Keys)
  /\ clock = 1
  /\ ret = LNoCall
  /\ th = [c \in Callers |-> LIdle]
  /\ nops = 0
  /\ plain = [x \in {} |-> ""]
  /\ muts = [k \in Keys |-> 0]
  /\ maxSeen = [k \in Keys |-> 0]
  /\ swaps = << >>
  /\ NoPersistentStore
  /\ NoFilePersistence

NextLock ==
  \/ \E c \in Callers, key \in Keys, ctx \in LockCtxs : LockCall(c, "Get", key, ctx, "", 0)
  \/ \E c \in Callers, key \in Keys, ctx \in LockCtxs : LockCall(c, "Set", key, ctx, "v1", 0)
  \/ \E c \in Callers, key \in Keys, ctx \in LockCtxs : LockCall(c, "Delete", key, ctx, "", 0)
  \/ \E c \in Callers, ctx \in LockCtxs : LockCall(c, "List", EmptyKey, ctx, "", 0)
  \/ \E c \in Callers, ctx \in LockCtxs : LockCall(c, "ListEntries", EmptyKey, ctx, "", 0)
  \/ \E c \in Callers, ctx \in LockCtxs : LockCall(c, "Size", EmptyKey, ctx, "", 0)
  \/ \E c \in Callers, ctx \in LockCtxs : LockCall(c, "Clear", EmptyKey, ctx, "", 0)
  \/ \E c \in Callers, key \in Keys, ctx \in LockCtxs : LockCall(c, "Exists", key, ctx, "", 0)
  \/ \E c \in Callers, key \in Keys, ctx \in LockCtxs :
       LockCall(c, "CompareAndSwap", key, ctx, "v2", 1)
  \/ \E c \in Callers : LockCall(c, "Close", EmptyKey, "live", "", 0)
  \/ \E c \in Callers : LockCall(c, "GetStats", EmptyKey, "live", "", 0)
  \/ \E c \in Callers : LockAcquire(c)
  \/ \E c \in Callers : LockStat(c)
  \/ \E c \in Callers : LockApply(c)
  \/ \E c \in Callers : LockCount(c)
  \/ \E c \in Callers : LockRange(c)
  \/ \E c \in Callers : LockFinish(c)
  \/ \E c \in Callers : LockStatsAcquire(c)
  \/ \E c \in Callers : LockStatsCopy(c)

\* The scheduler lets every goroutine that can take a step take it.
SpecLock == InitLock /\ [][NextLock]_vars /\ \A c \in Callers : WF_vars(LockStep(c))

(***************************************************************************)
(* Properties of Close under a fair scheduler (SpecLive)                   *)
(***************************************************************************)
\* The caller is inside Close.
InClose ==
  th[SeqCaller].pc \in {"closeMark", "closeSnapshot", "closeSave", "closeChan", "closeWait"}

\* Close makes at most RetryAttempts+1 attempts of its final save and returns
\* only after saveProcessor has returned.
CloseBounded ==
  /\ [](th[SeqCaller].pc = "closeSave" => th[SeqCaller].attempt <= cfg.RetryAttempts)
  /\ [](ret.op = "Close" => wk.pc = "exited")
  /\ [][(th[SeqCaller].pc = "closeWait" /\ th'[SeqCaller].pc # "closeWait") =>
          wk.pc = "exited"]_vars

\* C40: Close always returns, after at most RetryAttempts+1 attempts of the
\* final save and after the worker has exited, whether Save succeeds or
\* fails, whatever is queued, and whether or not a Set or the timer's function
\* runs beside it.
C40_CloseAlwaysReturns ==
  /\ InClose ~> (ret.op = "Close")
  /\ CloseBounded

\* What does hold: a Close returns unless a send on the closed channel has
\* panicked, and it is bounded as C40 says.
CloseReturnsUnlessPanicked ==
  /\ InClose ~> (ret.op = "Close" \/ ps.panicked)
  /\ CloseBounded

\* The timer's function has panicked in its send while the caller waits in
\* Close for the worker, which has exited: Close does not return.
CloseCutShortByPanic ==
  /\ th[SeqCaller].pc = "closeWait"
  /\ wk.pc = "exited"
  /\ tm.pc = "panicked"
  /\ ps.panicked
  /\ ps.once # "done"

(***************************************************************************)
(* Properties of the MemoryStore's locking (SpecLock)                      *)
(***************************************************************************)
\* The result of an enumeration is the map content data: every key once, each
\* entry with the value the key had, the size the number of keys; and the
\* snapshot createSnapshot makes of the entries is that content's data.
ShowsContent(r, data) ==
  CASE r.op = "List" ->
         /\ {r.keys[i] : i \in DOMAIN r.keys} = DOMAIN data
         /\ Len(r.keys) = Cardinality(DOMAIN data)
    [] r.op = "ListEntries" ->
         /\ {r.list[i].Key : i \in DOMAIN r.list} = DOMAIN data
         /\ Len(r.list) = Cardinality(DOMAIN data)
         /\ \A i \in DOMAIN r.list : r.list[i].Value = data[r.list[i].Key]
         /\ SnapshotOfEntries(r.list, clock).Data = DataOf(data)
         /\ SnapshotOfEntries(r.list, clock).Stats.TotalKeys = Cardinality(DOMAIN data)
    [] r.op = "Size" -> r.n = Cardinality(DOMAIN data)
    [] OTHER -> FALSE

\* C36: what a List, a ListEntries (the call createSnapshot makes for every
\* flush) or a Size returns is the content the map had at one instant between
\* the call and its return, whatever writers ran beside it: never a part of a
\* content, never a mix of two.
C36_EnumerationIsSingleInstant ==
  /\ (ret.op \in {"List", "ListEntries", "Size"} /\ ret.err = Nil) =>
       \E data \in ret.views : ShowsContent(ret, data)
  /\ \A c \in Callers :
       (th[c].pc = "range" /\ th[c].list # << >>) =>
         \A i \in DOMAIN th[c].list :
           /\ th[c].list[i].Key \in DOMAIN ms.data
           /\ th[c].list[i].Value = ms.data[th[c].list[i].Key]

\* C36's case: a ListEntries has returned both entries although the map was
\* changed between its call and its return, and a Clear called while it held
\* the lock is still waiting.
C36_Witness ==
  /\ ret.op = "ListEntries"
  /\ ret.err = Nil
  /\ Len(ret.list) = 2
  /\ Cardinality(ret.views) >= 2
  /\ \E data \in ret.views : ShowsContent(ret, data)
  /\ \E c \in Callers : th[c].pc = "lock" /\ th[c].op = "Clear"

\* C39: the MemoryStore does not deadlock. Whatever Get, Set, Delete, List,
\* ListEntries, Size, Clear, Exists, CompareAndSwap, Close and GetStats calls run
\* beside each other, a goroutine inside a method returns in the end; as long
\* as one is inside a method one of them can take a step; ms.statsMutex is
\* taken by a goroutine that holds ms.mutex or by GetStats, which holds no
\* other lock, and a goroutine that holds ms.statsMutex asks for no lock.
C39_NoDeadlock ==
  /\ \A c \in Callers : (th[c].pc # "idle") ~> (th[c].pc = "idle")
  /\ []((\E c \in Callers : th[c].pc # "idle") => \E c \in Callers : ENABLED LockStep(c))
  /\ [](\A c \in Callers :
          /\ th[c].pc \in {"stat", "count"} => (c \in MapReaders \/ c \in MapWriters)
          /\ th[c].pc \in {"statsLock", "statsRead"} => th[c].op = "GetStats")
  /\ [][\A c \in Callers : th[c].pc = "statsRead" => th'[c].pc \in {"statsRead", "idle"}]_vars

\* C39's case: GetStats has returned its copy while a Set that holds ms.mutex
\* was waiting for ms.statsMutex; the Set can now go on.
C39_Witness ==
  /\ ret.op = "GetStats"
  /\ ret.from = "statsRead"
  /\ \E c \in Callers :
       /\ th[c].pc = "stat"
       /\ th[c].op = "Set"
       /\ c \in MapWriters
       /\ ENABLED LockStat(c)

(***************************************************************************)
(* Properties of the order of a method's checks (Spec)                     *)
(***************************************************************************)
\* A step in which a Get, Set, Delete, Exists or CompareAndSwap was called and
\* returned.
KeyedCallStep == nops' # nops /\ ret'.op \in KeyedOps

ContextBeforeClosed ==
  /\ ms.closed
  /\ ret.op = "Get"
  /\ ret.key \in DOMAIN ms.data
  /\ ret.ctx = "cancelled"
  /\ ret.err = Canceled

(***************************************************************************)
(* A caller that reads a key's version with Get and later hands it to      *)
(* CompareAndSwap, beside callers that Set, Delete and Clear               *)
(* (specification SpecOCC). Every method is atomic under ms.mutex.         *)
(***************************************************************************)
MaxOCCOps == 5

\* A caller before its Get. changed and removed are history: how many calls
\* have changed the key since the caller's Get of it, and whether one of them
\* removed it.
OCCIdle ==
  [pc |-> "get", op |-> "Get", key |-> EmptyKey, val |-> "", exp |-> 0, attempt |-> 0,
   changed |-> 0, removed |-> FALSE]

\* History: what a call that took the map from data to after means to a
\* caller that holds a version of its key.
OCCNoted(t, data, after) ==
  IF t.pc # "cas" THEN t
  ELSE IF t.key \in DOMAIN data /\ t.key \notin DOMAIN after
  THEN [t EXCEPT !.changed = @ + 1, !.removed = TRUE]
  ELSE IF t.key \in DOMAIN after /\ (t.key \notin DOMAIN data \/ after[t.key] # data[t.key])
  THEN [t EXCEPT !.changed = @ + 1]
  ELSE t

\* A call of a writer that keeps no version: Set, Delete or Clear.
OCCWrite(op, key, val, r) ==
  /\ nops < MaxOCCOps
  /\ nops' = nops + 1
  /\ ms' = r.ms
  /\ ret' = Returned(op, key, "live", val, 0, r)
  /\ th' = [c \in Callers |-> OCCNoted(th[c], ms.data, r.ms.data)]
  /\ UNCHANGED <<clock, plain, muts, maxSeen, swaps>>
  /\ UNCHANGED psVars
  /\ UNCHANGED fileVars

\* currentValue, err := store.Get(ctx, key): the caller keeps the version.
OCCGet(c, key) ==
  /\ nops < MaxOCCOps
  /\ th[c].pc = "get"
  /\ nops' = nops + 1
  /\ LET r == MemoryStore_Get(ms, "live", key)
     IN /\ ms' = r.ms
        /\ ret' = Returned("Get", key, "live", "", 0, r)
        /\ th' = [th EXCEPT ![c] =
                    IF r.err # Nil THEN @
                    ELSE [@ EXCEPT !.pc = "cas", !.op = "CompareAndSwap", !.key = key,
                                   !.exp = r.value.Version, !.changed = 0,
                                   !.removed = FALSE]]
  /\ UNCHANGED <<clock, plain, muts, maxSeen, swaps>>
  /\ UNCHANGED psVars
  /\ UNCHANGED fileVars

\* _, err = store.CompareAndSwap(ctx, key, currentValue.Version, newValue)
OCCCompareAndSwap(c, newValue) ==
  /\ nops < MaxOCCOps
  /\ th[c].pc = "cas"
  /\ nops' = nops + 1
  /\ LET r == MemoryStore_CompareAndSwap(ms, "live", th[c].key, th[c].exp, newValue, clock)
     IN /\ ms' = r.ms
        /\ ret' = Returned("CompareAndSwap", th[c].key, "live", newValue, th[c].exp, r)
        /\ swaps' = IF r.err = Nil THEN Append(swaps, th[c].exp) ELSE swaps
        /\ th' = [d \in Callers |->
                    IF d = c THEN [th[c] EXCEPT !.pc = "get", !.op = "Get", !.attempt = @ + 1]
                    ELSE OCCNoted(th[d], ms.data, r.ms.data)]
  /\ UNCHANGED <<clock, plain, muts, maxSeen>>
  /\ UNCHANGED psVars
  /\ UNCHANGED fileVars

OCCSet(key, v) == OCCWrite("Set", key, v, MemoryStore_Set(ms, "live", key, v, clock))
OCCDelete(key) == OCCWrite("Delete", key, "", MemoryStore_Delete(ms, "live", key))
OCCClear == OCCWrite("Clear", EmptyKey, "", MemoryStore_Clear(ms, "live"))

\* store.Set(ctx, key, initialValue), then the callers start
InitOCC ==
  /\ ms = MemoryStore_Set(NewMemoryStore, "live", ContendedKey, "v1", 1).ms
  /\ clock = 1
  /\ ret = NoCall
  /\ th = [c \in Callers |-> OCCIdle]
  /\ nops = 0
  /\ plain = [x \in {} |-> ""]
  /\ muts = [k \in Keys |-> 0]
  /\ maxSeen = [k \in Keys |-> 0]
  /\ swaps = << >>
  /\ NoPersistentStore
  /\ NoFilePersistence

NextOCC ==
  \/ \E c \in Callers, key \in Keys : OCCGet(c, key)
  \/ \E c \in Callers, v \in Vals : OCCCompareAndSwap(c, v)
  \/ \E key \in Keys, v \in Vals : OCCSet(key, v)
  \/ \E key \in Keys : OCCDelete(key)
  \/ OCCClear
  \/ LoopTick

SpecOCC == InitOCC /\ [][NextOCC]_vars

(***************************************************************************)
(* Properties of Get followed by CompareAndSwap (SpecOCC)                  *)
(***************************************************************************)
\* Caller c's CompareAndSwap, made with the version of its Get, has succeeded.
SwapSucceeds(c) ==
  /\ th[c].pc = "cas"
  /\ th'[c].pc = "get"
  /\ ret'.err = Nil

\* C38 (as stated): a CompareAndSwap made with the version an earlier Get of the
\* key returned succeeds only if no Set, CompareAndSwap, Delete or Clear has
\* changed the key since that Get.
C38_SwapOnlyIfUntouched ==
  [][\A c \in Callers : SwapSucceeds(c) => th[c].changed = 0]_vars

\* C38 (amended): such a CompareAndSwap succeeds only if the key has the
\* version of the Get; it has it when no call changed the key since the Get,
\* and also when a Delete or Clear removed the key and Sets and
\* CompareAndSwaps brought it back to that version, which takes at least the
\* removal and as many calls as the version counts. A key that was changed
\* and never removed since the Get has a higher version, and the
\* CompareAndSwap returns ErrConcurrentModification with the current value,
\* leaving the map alone.
C38_SwapOnlyIfVersionUnchanged ==
  [][\A c \in Callers :
       (th[c].pc = "cas" /\ th'[c].pc = "get") =>
         /\ ret'.err = Nil =>
              /\ ms.data[th[c].key].Version = th[c].exp
              /\ th[c].changed = 0 \/ (th[c].removed /\ th[c].changed >= th[c].exp + 1)
         /\ (th[c].changed > 0 /\ ~th[c].removed) =>
              /\ ret'.err = ErrConcurrentModification
              /\ ret'.value = ms.data[th[c].key]
              /\ ret'.value.Version > th[c].exp
              /\ ms'.data = ms.data
         /\ th[c].key \notin DOMAIN ms.data => ret'.err = ErrKeyNotFound]_vars

\* C38's case: a caller whose key was changed by another caller's Set since its
\* Get, and never removed, has had its CompareAndSwap refused; the key holds
\* the other caller's value at version 2.
C38_Witness ==
  /\ ret.op = "CompareAndSwap"
  /\ ret.err = ErrConcurrentModification
  /\ ret.exp = 1
  /\ ret.value.Version = 2
  /\ ms.data[ret.key] = ret.value
  /\ \E c \in Callers :
       /\ th[c].pc = "get"
       /\ th[c].attempt = 1
       /\ th[c].key = ret.key
       /\ th[c].changed = 1
       /\ ~th[c].removed

\* A caller's CompareAndSwap has succeeded at the version of its Get although
\* the key was deleted and set again in between: the key is at version 2 with
\* the caller's value.
SwapAfterRecreation ==
  /\ ret.op = "CompareAndSwap"
  /\ ret.err = Nil
  /\ ret.exp = 1
  /\ ms.data[ret.key].Version = 2
  /\ \E c \in Callers :
       /\ th[c].pc = "get"
       /\ th[c].attempt = 1
       /\ th[c].key = ret.key
       /\ th[c].removed
       /\ th[c].changed = 2

=============================================================================
